---------------------------- MODULE Spec2Model ----------------------------
(***************************************************************************)
(* Typed schema layer over a schema-less property graph (silentlink       *)
(* backend): attribute validation of node creation, the agtype wire       *)
(* decoder, node/edge type persistence and node creation.                 *)
(*                                                                         *)
(* Text is modelled as a sequence of one-character strings, so that       *)
(* splitting, trimming, parsing and escaping are computed character by    *)
(* character as the code computes them.                                   *)
(***************************************************************************)
EXTENDS Integers, Sequences, FiniteSets, TLC

VARIABLES
    v_attrs,     \* validator run: attribute definitions of the node type
    v_props,     \* validator run: CreateNodeRequest.properties
    v_errors,    \* validator run: the errors vector of Node::create
    v_pc,        \* validator run: "start" | "done"
    d_raw,       \* decoder run: the text of the agtype column value
    d_vertex,    \* decoder run: the vertex the engine encoded ("none" for hand-made text)
    d_out,       \* decoder run: result of AgType::decode followed by Node::try_from
    d_pc,        \* decoder run: "start" | "done"
    c_props,     \* synthesis run: the property map given to generate_props_clause
    c_order,     \* synthesis run: the order in which the HashMap yields its keys
    c_out,       \* synthesis run: the prop_strings and the clause
    c_pc,        \* synthesis run: "start" | "done"
    labels,                \* engine catalog: <<graph_id, label>> registered
    node_types,            \* rows of app_data.node_types
    node_type_attributes,  \* rows of app_data.node_type_attributes
    edge_type,             \* rows of app_data.edge_type
    edge_type_attribute,   \* rows of app_data.edge_type_attribute
    vertices,              \* the vertices stored in the graph engine
    treq,                  \* create_node_type / create_edge_type requests
    ereq,                  \* create_node requests
    lreq,                  \* the get_nodes request
    areq                   \* requests on their way through auth_middleware and
                           \* the authorization checks of a writing handler

clause_vars == <<c_props, c_order, c_out, c_pc>>

pure_vars == <<v_attrs, v_props, v_errors, v_pc, d_raw, d_vertex, d_out, d_pc,
               clause_vars>>

db_vars == <<labels, node_types, node_type_attributes, edge_type,
             edge_type_attribute, vertices>>

vars == <<pure_vars, db_vars, treq, ereq, lreq, areq>>

-----------------------------------------------------------------------------
(* Characters and text helpers                                             *)

Digits == <<"0", "1", "2", "3", "4", "5", "6", "7", "8", "9">>

IsDigit(c) == \E i \in 1..10 : Digits[i] = c

DigitVal(c) == (CHOOSE i \in 1..10 : Digits[i] = c) - 1

\* char::is_whitespace for the characters of the model
IsWhitespace(c) == c \in {" ", "\n", "\t"}

\* char::is_control for the characters of the model; "SOH" stands for U+0001
IsControl(c) == c \in {"SOH", "\n", "\t"}

RECURSIVE TrimStart(_)
TrimStart(s) ==
    IF s # <<>> /\ IsWhitespace(Head(s)) THEN TrimStart(Tail(s)) ELSE s

RECURSIVE TrimEnd(_)
TrimEnd(s) ==
    IF s # <<>> /\ IsWhitespace(s[Len(s)])
    THEN TrimEnd(SubSeq(s, 1, Len(s) - 1)) ELSE s

\* str::trim
Trim(s) == TrimEnd(TrimStart(s))

\* str::trim_start_matches(char::is_control)
RECURSIVE TrimStartControl(_)
TrimStartControl(s) ==
    IF s # <<>> /\ IsControl(Head(s)) THEN TrimStartControl(Tail(s)) ELSE s

\* s has t as a prefix starting at index i
MatchAt(s, i, t) ==
    /\ i + Len(t) - 1 <= Len(s)
    /\ \A j \in 1..Len(t) : s[i + j - 1] = t[j]

-----------------------------------------------------------------------------
(* serde_json::Value                                                       *)

JString(s) == [kind |-> "string", s |-> s, items |-> <<>>, m |-> <<>>]
JNumber(s) == [kind |-> "number", s |-> s, items |-> <<>>, m |-> <<>>]
JBool(b)   == [kind |-> "bool",
               s |-> IF b THEN <<"t", "r", "u", "e">> ELSE <<"f", "a", "l", "s", "e">>,
               items |-> <<>>, m |-> <<>>]
JNull      == [kind |-> "null", s |-> <<>>, items |-> <<>>, m |-> <<>>]
JArray(a)  == [kind |-> "array", s |-> <<>>, items |-> a, m |-> <<>>]
JObject(f) == [kind |-> "object", s |-> <<>>, items |-> <<>>, m |-> f]

\* Value::is_number, Value::is_boolean, Value::as_str().is_some()
is_number(v)  == v.kind = "number"
is_boolean(v) == v.kind = "bool"
is_str(v)     == v.kind = "string"

-----------------------------------------------------------------------------
(* Values of the variables of a run that has not started                   *)

\* no validation result yet
NoResult == [ok |-> FALSE, errors |-> <<>>]

\* a text that was not produced by encoding a vertex
NotEncoded == [present |-> FALSE, label |-> <<>>, props |-> <<>>]

\* no decoder output yet
NoOutput == [outcome |-> "none", has_value |-> FALSE, value |-> JNull,
             node_ok |-> FALSE, properties |-> <<>>]

\* no clause synthesized yet
NoClause == [strings |-> <<>>, clause |-> <<>>]

\* the synthesis run is not part of the behaviour
ClauseOff ==
    /\ c_props = <<>>
    /\ c_order = <<>>
    /\ c_out = NoClause
    /\ c_pc = "off"

\* the database before any type or node was created
EmptyDb ==
    /\ labels = {}
    /\ node_types = {}
    /\ node_type_attributes = {}
    /\ edge_type = {}
    /\ edge_type_attribute = {}
    /\ vertices = {}

-----------------------------------------------------------------------------
(* chrono::DateTime::parse_from_rfc3339(s).is_ok()                         *)
(* date-fullyear "-" date-month "-" date-mday "T" hour ":" minute ":"      *)
(* second [ "." 1*DIGIT ] ( "Z" / ("+" / "-") hour ":" minute )            *)

Num2(s, i) == DigitVal(s[i]) * 10 + DigitVal(s[i + 1])

Num4(s, i) == Num2(s, i) * 100 + Num2(s, i + 2)

AllDigits(s, i, j) == \A k \in i..j : IsDigit(s[k])

IsLeapYear(y) == (y % 4 = 0 /\ y % 100 # 0) \/ y % 400 = 0

DaysInMonth(y, mo) ==
    IF mo = 2 THEN (IF IsLeapYear(y) THEN 29 ELSE 28)
    ELSE IF mo \in {4, 6, 9, 11} THEN 30 ELSE 31

\* index of the first character after the optional fraction that starts at i
RECURSIVE SkipDigits(_, _)
SkipDigits(s, i) ==
    IF i <= Len(s) /\ IsDigit(s[i]) THEN SkipDigits(s, i + 1) ELSE i

OffsetOk(s, i) ==
    \/ /\ Len(s) = i
       /\ s[i] \in {"Z", "z"}
    \/ /\ Len(s) = i + 5
       /\ s[i] \in {"+", "-"}
       /\ AllDigits(s, i + 1, i + 2)
       /\ s[i + 3] = ":"
       /\ AllDigits(s, i + 4, i + 5)
       /\ Num2(s, i + 1) <= 23
       /\ Num2(s, i + 4) <= 59

parse_from_rfc3339_ok(s) ==
    /\ Len(s) >= 20
    /\ AllDigits(s, 1, 4) /\ s[5] = "-"
    /\ AllDigits(s, 6, 7) /\ s[8] = "-"
    /\ AllDigits(s, 9, 10) /\ s[11] \in {"T", "t"}
    /\ AllDigits(s, 12, 13) /\ s[14] = ":"
    /\ AllDigits(s, 15, 16) /\ s[17] = ":"
    /\ AllDigits(s, 18, 19)
    /\ Num2(s, 6) \in 1..12
    /\ Num2(s, 9) \in 1..DaysInMonth(Num4(s, 1), Num2(s, 6))
    /\ Num2(s, 12) <= 23
    /\ Num2(s, 15) <= 59
    /\ Num2(s, 18) <= 60
    /\ IF s[20] = "."
       THEN /\ SkipDigits(s, 21) > 21
            /\ SkipDigits(s, 21) <= Len(s)
            /\ OffsetOk(s, SkipDigits(s, 21))
       ELSE OffsetOk(s, 20)

-----------------------------------------------------------------------------
(* Validation of required attributes in Node::create                       *)

MissingAttribute(name) ==
    [tag |-> "MissingAttribute", name |-> name, expected |-> ""]

WrongType(name, expected) ==
    [tag |-> "WrongType", name |-> name, expected |-> expected]

\* a Date arm that only asks for a string, without parsing it
DateErrors_AnyString(attr, value) ==
    IF is_str(value) THEN <<>>
    ELSE <<WrongType(attr.name, "RFC3339 date string")>>

\* the arm for a Date attribute
DateErrors(attr, value) ==
    IF is_str(value)
    THEN IF ~parse_from_rfc3339_ok(value.s)
         THEN <<WrongType(attr.name, "RFC3339 date string")>> ELSE <<>>
    ELSE <<WrongType(attr.name, "RFC3339 date string")>>

\* a String arm that asks for a string value
StringErrors_Strict(attr, value) ==
    IF is_str(value) THEN <<>> ELSE <<WrongType(attr.name, "string")>>

\* the arm for a String attribute: no validation
StringErrors(attr, value) == <<>>

\* the type check of a present property, by the attribute's data type
TypeErrors(attr, value) ==
    CASE  attr.data_type = "number" ->
             IF ~is_number(value) THEN <<WrongType(attr.name, "number")>> ELSE <<>>
      [] attr.data_type = "boolean" ->
             IF ~is_boolean(value) THEN <<WrongType(attr.name, "boolean")>> ELSE <<>>
      [] attr.data_type = "date" -> DateErrors(attr, value)
      [] attr.data_type = "string" -> StringErrors(attr, value)

\* a loop body that type-checks every present property, required or not
AttrErrors_CheckOptional(attr, properties) ==
    IF attr.name \notin DOMAIN properties
    THEN (IF attr.required THEN <<MissingAttribute(attr.name)>> ELSE <<>>)
    ELSE TypeErrors(attr, properties[attr.name])

\* the body of the loop over the attributes: what one attribute pushes
AttrErrors(attr, properties) ==
    IF ~attr.required THEN <<>>
    ELSE IF attr.name \notin DOMAIN properties
         THEN <<MissingAttribute(attr.name)>>
         ELSE TypeErrors(attr, properties[attr.name])

\* a loop that returns at the first attribute in error
RECURSIVE CollectErrors_ShortCircuit(_, _, _)
CollectErrors_ShortCircuit(attributes, properties, i) ==
    IF i > Len(attributes) THEN <<>>
    ELSE IF AttrErrors(attributes[i], properties) # <<>>
         THEN AttrErrors(attributes[i], properties)
         ELSE CollectErrors_ShortCircuit(attributes, properties, i + 1)

\* the loop: errors pushed for attributes i..Len(attributes), in order
RECURSIVE CollectErrors(_, _, _)
CollectErrors(attributes, properties, i) ==
    IF i > Len(attributes) THEN <<>>
    ELSE AttrErrors(attributes[i], properties)
             \o CollectErrors(attributes, properties, i + 1)

\* the errors vector after the loop
ValidationErrors(attributes, properties) ==
    CollectErrors(attributes, properties, 1)

\* Node::create up to the early return: Ok or Err(ValidationError(list))
ValidateResult(attributes, properties) ==
    IF ValidationErrors(attributes, properties) # <<>>
    THEN [ok |-> FALSE, errors |-> ValidationErrors(attributes, properties)]
    ELSE [ok |-> TRUE, errors |-> <<>>]

-----------------------------------------------------------------------------
(* serde_json::from_str for the JSON texts of the model: objects, strings, *)
(* unsigned integers, true, false, null.  The drawn texts hold no arrays.  *)

sTrue   == <<"t", "r", "u", "e">>
sFalse  == <<"f", "a", "l", "s", "e">>
sNullLit == <<"n", "u", "l", "l">>
sLabel  == <<"l", "a", "b", "e", "l">>
sProperties == <<"p", "r", "o", "p", "e", "r", "t", "i", "e", "s">>
sVertex == <<"v", "e", "r", "t", "e", "x">>

ParseFail == [ok |-> FALSE, v |-> JNull, i |-> 0]

\* the element of a one-element set: {e(x) : x \in {v}} computes v once and
\* then e, the way a `let` binding of the source does
Only(S) == CHOOSE x \in S : TRUE

RECURSIVE SkipWs(_, _)
SkipWs(s, i) ==
    IF i <= Len(s) /\ IsWhitespace(s[i]) THEN SkipWs(s, i + 1) ELSE i

\* the index where the run of "\" that ends just before index i starts
\* (i itself when the character before i is not a "\")
BackslashRunStart(s, lo, i) ==
    CHOOSE a \in lo..i :
        /\ \A k \in a..(i - 1) : s[k] = "\\"
        /\ a = lo \/ s[a - 1] # "\\"

\* the character at index i follows a "\" that escapes it
IsEscaped(s, lo, i) == (i - BackslashRunStart(s, lo, i)) % 2 = 1

\* the "\" at index i starts an escape sequence
StartsEscape(s, lo, i) == s[i] = "\\" /\ ~IsEscaped(s, lo, i)

\* the characters of the literal s[lo..hi] with the escaping "\" removed
Unescape(s, lo, hi) ==
    LET kept == {k \in lo..hi : ~StartsEscape(s, lo, k)}
    IN  [n \in 1..Cardinality(kept) |->
            s[CHOOSE p \in kept : Cardinality({q \in kept : q <= p}) = n]]

\* the string literal whose opening quote is before index i: it ends at the
\* first quote that no "\" escapes; the only escapes of the model's texts
\* are \" and \\, and a control character inside the literal is an error
ParseStringBody(s, i) ==
    IF {j \in i..Len(s) : s[j] = "\"" /\ ~IsEscaped(s, i, j)} = {} THEN ParseFail
    ELSE Only({IF \E k \in i..(j - 1) :
                     \/ IsControl(s[k])
                     \/ StartsEscape(s, i, k) /\ s[k + 1] \notin {"\"", "\\"}
               THEN ParseFail
               ELSE [ok |-> TRUE, v |-> JString(Unescape(s, i, j - 1)), i |-> j + 1] :
               j \in {CHOOSE m \in i..Len(s) :
                         /\ s[m] = "\"" /\ ~IsEscaped(s, i, m)
                         /\ \A n \in i..(m - 1) :
                                ~(s[n] = "\"" /\ ~IsEscaped(s, i, n))}})

ParseNumber(s, i) ==
    Only({IF s[i] = "0" /\ j > i + 1 THEN ParseFail
          ELSE [ok |-> TRUE, v |-> JNumber(SubSeq(s, i, j - 1)), i |-> j] :
          j \in {SkipDigits(s, i)}})

\* the map a sequence of parsed members builds: a later key replaces an earlier one
MapOfPairs(pairs) ==
    [k \in {pairs[j][1] : j \in 1..Len(pairs)} |->
        pairs[CHOOSE j \in 1..Len(pairs) :
                 /\ pairs[j][1] = k
                 /\ \A h \in (j + 1)..Len(pairs) : pairs[h][1] # k][2]]

RECURSIVE ParseValue(_, _)
RECURSIVE ParseMembers(_, _, _)

\* the value that starts at index i
ValueAt(s, i) ==
    IF i > Len(s) THEN ParseFail
    ELSE IF s[i] = "\"" THEN ParseStringBody(s, i + 1)
    ELSE IF IsDigit(s[i]) THEN ParseNumber(s, i)
    ELSE IF MatchAt(s, i, sTrue) THEN [ok |-> TRUE, v |-> JBool(TRUE), i |-> i + 4]
    ELSE IF MatchAt(s, i, sFalse) THEN [ok |-> TRUE, v |-> JBool(FALSE), i |-> i + 5]
    ELSE IF MatchAt(s, i, sNullLit) THEN [ok |-> TRUE, v |-> JNull, i |-> i + 4]
    ELSE IF s[i] = "{"
         THEN Only({IF r.ok THEN [ok |-> TRUE, v |-> JObject(MapOfPairs(r.v)), i |-> r.i]
                    ELSE ParseFail :
                    r \in {ParseMembers(s, i + 1, <<>>)}})
    ELSE ParseFail

\* a value starting at index i0 (leading whitespace skipped)
ParseValue(s, i0) == Only({ValueAt(s, i) : i \in {SkipWs(s, i0)}})

\* what follows the member <<key, val.v>> of an object: "," and the next
\* member, or the closing "}"
AfterMember(s, acc, key, val) ==
    IF ~val.ok THEN ParseFail
    ELSE Only({IF e > Len(s) THEN ParseFail
               ELSE IF s[e] = ","
                    THEN ParseMembers(s, e + 1, Append(acc, <<key, val.v>>))
               ELSE IF s[e] = "}"
                    THEN [ok |-> TRUE, v |-> Append(acc, <<key, val.v>>), i |-> e + 1]
               ELSE ParseFail :
               e \in {SkipWs(s, val.i)}})

\* the ":" and the value that follow the key k of a member
AfterKey(s, acc, k) ==
    IF ~k.ok THEN ParseFail
    ELSE Only({IF c > Len(s) \/ s[c] # ":" THEN ParseFail
               ELSE Only({AfterMember(s, acc, k.v.s, val) :
                          val \in {ParseValue(s, c + 1)}}) :
               c \in {SkipWs(s, k.i)}})

\* the member that starts at index i, or the "}" of an empty object
MemberAt(s, i, acc) ==
    IF i > Len(s) THEN ParseFail
    ELSE IF s[i] = "}" /\ acc = <<>> THEN [ok |-> TRUE, v |-> acc, i |-> i + 1]
    ELSE IF s[i] # "\"" THEN ParseFail
    ELSE Only({AfterKey(s, acc, k) : k \in {ParseStringBody(s, i + 1)}})

\* the members of an object whose "{" (or the "," of a member) is before index i0;
\* v is the sequence of <<key, value>> in the order of the text
ParseMembers(s, i0, acc) == Only({MemberAt(s, i, acc) : i \in {SkipWs(s, i0)}})

WithKey(pairs, key) == {j \in 1..Len(pairs) : pairs[j][1] = key}

NoVertex == [ok |-> FALSE, label |-> <<>>, properties |-> JNull]

\* the struct built from the parsed members: exactly one "label", a string,
\* and exactly one "properties", any value; other keys are ignored
VertexOfMembers(pairs) ==
    IF Cardinality(WithKey(pairs, sLabel)) # 1
           \/ Cardinality(WithKey(pairs, sProperties)) # 1
    THEN NoVertex
    ELSE Only({IF l.kind # "string" THEN NoVertex
               ELSE [ok |-> TRUE, label |-> l.s, properties |-> pr] :
               l \in {pairs[CHOOSE j \in WithKey(pairs, sLabel) : TRUE][2]},
               pr \in {pairs[CHOOSE j \in WithKey(pairs, sProperties) : TRUE][2]}})

\* serde_json::from_str::<Vertex>(content): the derived Deserialize of
\* struct Vertex { label: String, properties: JsonValue }
from_str_Vertex(content) ==
    Only({IF i > Len(content) \/ content[i] # "{" THEN NoVertex
          ELSE Only({IF ~r.ok \/ SkipWs(content, r.i) # Len(content) + 1 THEN NoVertex
                     ELSE VertexOfMembers(r.v) :
                     r \in {ParseMembers(content, i + 1, <<>>)}}) :
          i \in {SkipWs(content, 1)}})

\* serde_json::to_value(vertex)
to_value_Vertex(vertex) ==
    JObject((sLabel :> JString(vertex.label)) @@ (sProperties :> vertex.properties))

-----------------------------------------------------------------------------
(* impl Decode for AgType                                                  *)

sSep == <<":", ":">>

\* the index where the run of ":" that holds index i starts
RunStart(s, i) ==
    CHOOSE a \in 1..i :
        /\ \A k \in a..i : s[k] = ":"
        /\ a = 1 \/ s[a - 1] # ":"

\* the indices where str::split finds "::": matches are taken left to right and
\* do not overlap, so inside a run of ":" every second index starts a match
MatchStarts(s) ==
    {i \in 1..(Len(s) - 1) :
        /\ s[i] = ":"
        /\ s[i + 1] = ":"
        /\ (i - RunStart(s, i)) % 2 = 0}

\* the pieces that start at index start, given the matches at or after it
RECURSIVE SplitFrom(_, _, _)
SplitFrom(s, starts, start) ==
    IF starts = {} THEN <<SubSeq(s, start, Len(s))>>
    ELSE Only({<<SubSeq(s, start, i - 1)>> \o SplitFrom(s, starts \ {i}, i + 2) :
               i \in {CHOOSE m \in starts : \A n \in starts : m <= n}})

\* str::split("::"): the pieces between non-overlapping matches, left to right
split(s) == SplitFrom(s, MatchStarts(s), 1)

DecodeErr(outcome) == [outcome |-> outcome, has_value |-> FALSE, value |-> JNull]

\* let content = parts[0].trim()
content_of(parts) == Trim(parts[1])

\* let value_type = parts[parts.len() - 1].trim()
value_type_of(parts) == Trim(parts[Len(parts)])

\* the branch taken for value_type == "vertex"
decode_vertex(content) ==
    Only({Only({IF vertex.ok
                THEN [outcome |-> "Vertex", has_value |-> TRUE,
                      value |-> to_value_Vertex(vertex)]
                ELSE DecodeErr("JsonError") :
                vertex \in {from_str_Vertex(trimmed)}}) :
          trimmed \in {TrimStartControl(content)}})

\* AgType::decode on the text of the column value
decode(value_str) ==
    Only({IF Len(parts) >= 2
          THEN IF value_type_of(parts) = sVertex
               THEN Only({decode_vertex(content) : content \in {content_of(parts)}})
               ELSE DecodeErr("Unsupported")
          ELSE DecodeErr("Malformed") :
          parts \in {split(value_str)}})

\* Vertex::try_from(ag_type) followed by the property conversion of
\* Node::try_from: serde_json::from_value::<HashMap<String, JsonValue>>
node_properties(ag) ==
    LET properties == ag.value.m[sProperties]
    IN  IF properties.kind = "object"
        THEN [ok |-> TRUE, properties |-> properties.m]
        ELSE [ok |-> FALSE, properties |-> <<>>]

-----------------------------------------------------------------------------
(* The text the graph engine sends for a vertex:                           *)
(* {"id": 1, "label": "L", "properties": {"k": v, ...}}::vertex            *)

RECURSIVE EscapeJson(_)
EscapeJson(s) ==
    IF s = <<>> THEN <<>>
    ELSE (IF Head(s) \in {"\"", "\\"} THEN <<"\\", Head(s)>> ELSE <<Head(s)>>)
             \o EscapeJson(Tail(s))

QuoteJson(s) == <<"\"">> \o EscapeJson(s) \o <<"\"">>

EncodeScalar(v) ==
    CASE v.kind = "string" -> QuoteJson(v.s)
      [] v.kind = "number" -> v.s
      [] v.kind = "bool"   -> v.s
      [] v.kind = "null"   -> sNullLit

RECURSIVE EncodeMembers(_)
EncodeMembers(pairs) ==
    IF pairs = <<>> THEN <<>>
    ELSE QuoteJson(pairs[1][1]) \o <<":", " ">> \o EncodeScalar(pairs[1][2])
             \o (IF Len(pairs) > 1 THEN <<",", " ">> ELSE <<>>)
             \o EncodeMembers(Tail(pairs))

EncodeVertex(vertex) ==
    <<"{">> \o QuoteJson(<<"i", "d">>) \o <<":", " ", "1", ",", " ">>
        \o QuoteJson(sLabel) \o <<":", " ">> \o QuoteJson(vertex.label) \o <<",", " ">>
        \o QuoteJson(sProperties) \o <<":", " ", "{">>
        \o EncodeMembers(vertex.props) \o <<"}", "}">>
        \o sSep \o sVertex

-----------------------------------------------------------------------------
(* Decoder runs: SpecDecode                                                *)

MaxProps == 2

sA == <<"A">>
sK == <<"k">>
sN == <<"n">>
sName == <<"n", "a", "m", "e">>

WireKeys == {sK, sN, sName}

WireValues ==
    {JString(<<"a">>), JString(<<"a", ":", ":", "b">>), JString(<<"\"", "\\">>),
     JNumber(<<"3">>), JBool(TRUE), JNull}

\* property lists with distinct keys
WireProps ==
    {ps \in UNION {[1..k -> WireKeys \X WireValues] : k \in 0..MaxProps} :
        \A i, j \in 1..Len(ps) : i # j => ps[i][1] # ps[j][1]}

WireVertices == [present : {TRUE}, label : {sA}, props : WireProps]

sEmptyVertex ==
    <<"{">> \o QuoteJson(sLabel) \o <<":">> \o QuoteJson(sA) \o <<",">>
        \o QuoteJson(sProperties) \o <<":", "{", "}", "}">>

\* texts that no vertex encodes to
HandMadeTexts ==
    {<<>>,
     <<"{", "}">>,
     sVertex,
     <<"{", "}">> \o sSep \o <<"e", "d", "g", "e">>,
     sEmptyVertex \o sSep \o <<"e", "d", "g", "e">>,
     <<"3">> \o sSep \o <<"i", "n", "t">>,
     <<"x">> \o sSep \o sVertex,
     <<"{", "}">> \o sSep \o sVertex,
     <<"{">> \o QuoteJson(sLabel) \o <<":">> \o QuoteJson(sA) \o <<"}">> \o sSep \o sVertex,
     <<"{">> \o QuoteJson(sLabel) \o <<":", "3", ",">> \o QuoteJson(sProperties)
         \o <<":", "{", "}", "}">> \o sSep \o sVertex,
     <<"{">> \o QuoteJson(sLabel) \o <<":">> \o QuoteJson(sA) \o <<",">>
         \o QuoteJson(sProperties) \o <<":", "3", "}">> \o sSep \o sVertex,
     sEmptyVertex \o sSep \o <<" ">> \o sVertex \o <<"\n">>,
     sEmptyVertex \o sSep \o <<"x">> \o sSep \o sVertex,
     sEmptyVertex \o <<"x">> \o sSep \o sVertex}

InitDecode ==
    /\ \/ /\ d_vertex \in WireVertices
          /\ \E prefix \in {<<>>, <<"SOH">>} : d_raw = prefix \o EncodeVertex(d_vertex)
       \/ /\ d_vertex = NotEncoded
          /\ d_raw \in HandMadeTexts
    /\ d_out = NoOutput
    /\ d_pc = "start"
    /\ v_attrs = <<>>
    /\ v_props = <<>>
    /\ v_errors = NoResult
    /\ v_pc = "off"
    /\ ClauseOff
    /\ EmptyDb
    /\ treq = <<>>
    /\ ereq = <<>>
    /\ lreq = <<>>
    /\ areq = <<>>

\* one row of a result: AgType::decode, then Vertex::try_from and the
\* property conversion of Node::try_from when the decoder gave a value
DecodeRow ==
    /\ d_pc = "start"
    /\ LET ag == decode(d_raw)
           node == IF ag.has_value THEN node_properties(ag)
                   ELSE [ok |-> FALSE, properties |-> <<>>]
       IN  d_out' = [outcome |-> ag.outcome, has_value |-> ag.has_value,
                     value |-> ag.value, node_ok |-> node.ok,
                     properties |-> node.properties]
    /\ d_pc' = "done"
    /\ UNCHANGED <<areq, lreq, d_raw, d_vertex, v_attrs, v_props, v_errors, v_pc, clause_vars,
                   db_vars, treq, ereq>>

NextDecode == DecodeRow

SpecDecode == InitDecode /\ [][NextDecode]_vars

-----------------------------------------------------------------------------
(* Claims about the decoder                                                *)

SepPositions(s) == {i \in 1..(Len(s) - 1) : s[i] = ":" /\ s[i + 1] = ":"}

HasSeparator(s) == SepPositions(s) # {}

LastSep(s) == CHOOSE i \in SepPositions(s) : \A j \in SepPositions(s) : j <= i

\* the type tag: the text after the last "::"
TagOf(s) == Trim(SubSeq(s, LastSep(s) + 2, Len(s)))

\* the content: the text before the last "::"
ContentOf(s) == SubSeq(s, 1, LastSep(s) - 1)

ContentIsVertexObject(s) == from_str_Vertex(TrimStartControl(Trim(ContentOf(s)))).ok

\* C9: every input gets exactly one outcome: no "::" -> MalformedWireValue;
\* a type tag other than vertex -> UnsupportedWireType and no value; only the
\* tag vertex with a content that parses as an object with label and
\* properties yields a Vertex.
C9_DecoderClassifies ==
    d_pc = "done" =>
        /\ d_out.outcome \in {"Malformed", "Unsupported", "JsonError", "Vertex"}
        /\ d_out.has_value <=> d_out.outcome = "Vertex"
        /\ ~HasSeparator(d_raw) => d_out.outcome = "Malformed"
        /\ (HasSeparator(d_raw) /\ TagOf(d_raw) # sVertex) => d_out.outcome = "Unsupported"
        /\ d_out.outcome = "Vertex" =>
               /\ HasSeparator(d_raw)
               /\ TagOf(d_raw) = sVertex
               /\ ContentIsVertexObject(d_raw)

\* the property map a list of distinct-keyed members denotes
ExpectedMap(props) ==
    [k \in {props[i][1] : i \in 1..Len(props)} |->
        props[CHOOSE i \in 1..Len(props) : props[i][1] = k][2]]

\* C10: for every well-formed content::vertex text, decoding it and reading
\* back the properties yields the property map encoded in the content: same
\* keys, same values.
C10_PropertiesRoundTrip ==
    (d_pc = "done" /\ d_vertex.present) =>
        /\ d_out.outcome = "Vertex"
        /\ d_out.node_ok
        /\ d_out.properties = ExpectedMap(d_vertex.props)

\* C25: for a decoded text with a "::", the type tag the decoder compares is
\* the text after the last "::" and the content it parses is all the text
\* before that last "::".
C25_SplitsOnLastSeparator ==
    (d_pc = "done" /\ HasSeparator(d_raw)) =>
        /\ value_type_of(split(d_raw)) = TagOf(d_raw)
        /\ content_of(split(d_raw)) = Trim(ContentOf(d_raw))

-----------------------------------------------------------------------------
(* Validator runs: SpecValidate                                            *)

MaxAttrs == 2

sAge  == <<"a", "g", "e">>
sBorn == <<"b", "o", "r", "n">>
s12   == <<"1", "2">>

\* 2024-02-29T10:00:00Z, a leap day
sDateOk ==
    <<"2", "0", "2", "4", "-", "0", "2", "-", "2", "9", "T",
      "1", "0", ":", "0", "0", ":", "0", "0", "Z">>

\* 2023-02-29T10:00:00Z, a day that does not exist
sDateBad ==
    <<"2", "0", "2", "3", "-", "0", "2", "-", "2", "9", "T",
      "1", "0", ":", "0", "0", ":", "0", "0", "Z">>

DataTypes == {"string", "number", "boolean", "date"}

ValidatorNames == {sAge, sBorn}

ValidatorValues ==
    {JString(s12), JString(sDateOk), JString(sDateBad), JNumber(s12),
     JBool(TRUE), JNull, JArray(<<JNumber(s12)>>)}

AttrDefs == [name : ValidatorNames, data_type : DataTypes, required : BOOLEAN]

AttrLists == UNION {[1..k -> AttrDefs] : k \in 0..MaxAttrs}

PropMaps == UNION {[K -> ValidatorValues] : K \in SUBSET ValidatorNames}

InitValidate ==
    /\ v_attrs \in AttrLists
    /\ v_props \in PropMaps
    /\ v_errors = NoResult
    /\ v_pc = "start"
    /\ d_raw = <<>>
    /\ d_vertex = NotEncoded
    /\ d_out = NoOutput
    /\ d_pc = "off"
    /\ ClauseOff
    /\ EmptyDb
    /\ treq = <<>>
    /\ ereq = <<>>
    /\ lreq = <<>>
    /\ areq = <<>>

\* the validation part of Node::create applied to the drawn inputs
RunValidation ==
    /\ v_pc = "start"
    /\ v_errors' = ValidateResult(v_attrs, v_props)
    /\ v_pc' = "done"
    /\ UNCHANGED <<areq, lreq, v_attrs, v_props, d_raw, d_vertex, d_out, d_pc, clause_vars,
                   db_vars, treq, ereq>>

NextValidate == RunValidation

SpecValidate == InitValidate /\ [][NextValidate]_vars

-----------------------------------------------------------------------------
(* Claims about the validator                                              *)

\* the semantic type check as the specification words it
Matches(data_type, value) ==
    CASE data_type = "number"  -> value.kind = "number"
      [] data_type = "boolean" -> value.kind = "bool"
      [] data_type = "date"    -> value.kind = "string" /\ parse_from_rfc3339_ok(value.s)
      [] data_type = "string"  -> TRUE

Violated(attr, properties) ==
    /\ attr.required
    /\ \/ attr.name \notin DOMAIN properties
       \/ ~Matches(attr.data_type, properties[attr.name])

ViolatedIndices(attributes, properties) ==
    {i \in 1..Len(attributes) : Violated(attributes[i], properties)}

NthOf(S, j) == CHOOSE i \in S : Cardinality({k \in S : k < i}) = j - 1

\* C5: validate returns Ok iff no required attribute is violated; otherwise
\* the error list is non-empty and holds exactly one error per violated
\* required attribute, in attribute-declaration order.
C5_OneErrorPerViolationInOrder ==
    v_pc = "done" =>
        LET viol == ViolatedIndices(v_attrs, v_props)
            errs == v_errors.errors
        IN  /\ v_errors.ok <=> viol = {}
            /\ v_errors.ok => errs = <<>>
            /\ ~v_errors.ok => errs # <<>>
            /\ Len(errs) = Cardinality(viol)
            /\ \A j \in 1..Len(errs) :
                   /\ errs[j].name = v_attrs[NthOf(viol, j)].name
                   /\ errs[j].tag \in {"MissingAttribute", "WrongType"}

\* two required attributes are violated and two errors come back
C5_Witness ==
    /\ v_pc = "done"
    /\ Len(v_attrs) = 2
    /\ v_attrs[1].name # v_attrs[2].name
    /\ ViolatedIndices(v_attrs, v_props) = {1, 2}
    /\ Len(v_errors.errors) = 2
    /\ v_errors.errors[1].name = v_attrs[1].name

IsSingleRequired == Len(v_attrs) = 1 /\ v_attrs[1].required

\* C6: for a single required attribute: absent -> exactly one Missing{name};
\* present but mismatched -> exactly one WrongType{name, expected}; present
\* and matching -> no error. Number matches only numeric literals, Boolean
\* only boolean literals, Date only strings that parse as RFC 3339.
C6_SingleRequiredAttribute ==
    (v_pc = "done" /\ IsSingleRequired) =>
        LET a == v_attrs[1]
        IN  IF a.name \notin DOMAIN v_props
            THEN v_errors = [ok |-> FALSE, errors |-> <<MissingAttribute(a.name)>>]
            ELSE IF Matches(a.data_type, v_props[a.name])
                 THEN v_errors = [ok |-> TRUE, errors |-> <<>>]
                 ELSE /\ ~v_errors.ok
                      /\ Len(v_errors.errors) = 1
                      /\ v_errors.errors[1].tag = "WrongType"
                      /\ v_errors.errors[1].name = a.name
                      /\ a.data_type = "number" => v_errors.errors[1].expected = "number"
                      /\ a.data_type = "boolean" => v_errors.errors[1].expected = "boolean"

\* a required Number attribute "age" and the property age: "12"
C6_Witness ==
    /\ v_pc = "done"
    /\ v_attrs = <<[name |-> sAge, data_type |-> "number", required |-> TRUE]>>
    /\ v_props = (sAge :> JString(s12))
    /\ v_errors.errors = <<WrongType(sAge, "number")>>

IsRequired(attr) == attr.required

RequiredNames(attributes) ==
    {attributes[i].name : i \in {j \in 1..Len(attributes) : attributes[j].required}}

\* p and q agree on every key that names a required attribute
AgreeOn(names, p, q) ==
    \A k \in names :
        /\ k \in DOMAIN p <=> k \in DOMAIN q
        /\ k \in DOMAIN p => p[k] = q[k]

\* C7: an attribute that is not required never produces an error (the result
\* is the one of the required attributes alone), and adding or changing
\* properties that belong to non-required attributes never changes the result.
C7_NonRequiredNeverChecked ==
    v_pc = "done" =>
        /\ v_errors = ValidateResult(SelectSeq(v_attrs, IsRequired), v_props)
        /\ \A q \in PropMaps :
               AgreeOn(RequiredNames(v_attrs), v_props, q)
                   => ValidateResult(v_attrs, q) = v_errors

\* a non-required Number attribute whose property is present and malformed
C7_Witness ==
    /\ v_pc = "done"
    /\ Len(v_attrs) = 1
    /\ ~v_attrs[1].required
    /\ v_attrs[1].data_type = "number"
    /\ v_attrs[1].name \in DOMAIN v_props
    /\ v_props[v_attrs[1].name].kind = "string"
    /\ v_errors.ok

\* the names all of whose required attributes are declared String
StringOnlyNames(attributes) ==
    {n \in RequiredNames(attributes) :
        \A i \in 1..Len(attributes) :
            (attributes[i].required /\ attributes[i].name = n)
                => attributes[i].data_type = "string"}

ErrorsNamed(errs, n) == {j \in 1..Len(errs) : errs[j].name = n}

\* C8: a required String attribute is satisfied by any present value; the
\* validator emits no WrongType for it, only Missing when the property is
\* absent.
C8_StringAcceptsAnyValue ==
    v_pc = "done" =>
        \A n \in StringOnlyNames(v_attrs) :
            /\ n \in DOMAIN v_props => ErrorsNamed(v_errors.errors, n) = {}
            /\ n \notin DOMAIN v_props =>
                   /\ ErrorsNamed(v_errors.errors, n) # {}
                   /\ \A j \in ErrorsNamed(v_errors.errors, n) :
                          v_errors.errors[j] = MissingAttribute(n)

\* a required String attribute whose property is an array
C8_Witness ==
    /\ v_pc = "done"
    /\ v_attrs = <<[name |-> sAge, data_type |-> "string", required |-> TRUE]>>
    /\ sAge \in DOMAIN v_props
    /\ v_props[sAge].kind = "array"
    /\ v_errors.ok

-----------------------------------------------------------------------------
(* Schema store: type names, normalization, lookups                        *)

Lower == <<"a", "b", "c", "d", "e", "g", "l", "n", "o", "p", "r", "t", "w", "x", "y">>
Upper == <<"A", "B", "C", "D", "E", "G", "L", "N", "O", "P", "R", "T", "W", "X", "Y">>

\* char::is_alphabetic for the letters of the model
IsAlphabetic(c) == \E i \in 1..Len(Lower) : c = Lower[i] \/ c = Upper[i]

\* str::to_uppercase
to_uppercase(s) ==
    [i \in 1..Len(s) |->
        IF \E j \in 1..Len(Lower) : Lower[j] = s[i]
        THEN Upper[CHOOSE j \in 1..Len(Lower) : Lower[j] = s[i]]
        ELSE s[i]]

\* str::replace(' ', "_")
replace_spaces(s) == [i \in 1..Len(s) |-> IF s[i] = " " THEN "_" ELSE s[i]]

\* utils::normalize: uppercase, spaces replaced by underscores
normalize(name) == replace_spaces(to_uppercase(name))

\* the two checks of NodeType::new and EdgeType::new on the name
name_is_valid(name) ==
    /\ \A i \in 1..Len(name) : IsAlphabetic(name[i]) \/ IsWhitespace(name[i])
    /\ Trim(name) # <<>>

\* NodeType::from_id keeps the graph and compares only the id
from_id_AnyGraph(graph_id, node_type_id) ==
    {t \in node_types : t.id = node_type_id}

\* NodeType::from_id: the rows WHERE graph_id = $1 AND id = $2
from_id(graph_id, node_type_id) ==
    {t \in node_types : t.graph_id = graph_id /\ t.id = node_type_id}

\* NodeType::from_name reading also the rows of transactions not yet committed
from_name_Uncommitted(graph_id, name) ==
    {n \in node_types \cup UNION {treq[o].tx.rows : o \in DOMAIN treq} :
        n.graph_id = graph_id /\ n.normalized_name = normalize(name)}

\* NodeType::from_name: the rows WHERE graph_id = $1 AND normalized_name = normalize($2)
from_name(graph_id, name) ==
    {t \in node_types : t.graph_id = graph_id /\ t.normalized_name = normalize(name)}

\* NodeTypeAttributeDefinition::from_node_type: the attribute definitions of
\* the type, in their defined order
from_node_type(node_type) ==
    LET rows == {a \in node_type_attributes : a.type_id = node_type.id}
    IN  [i \in 1..Cardinality(rows) |->
            LET a == CHOOSE r \in rows : r.idx = i
            IN  [name |-> a.name, data_type |-> a.data_type, required |-> a.required]]

-----------------------------------------------------------------------------
(* Query synthesis (utils::generate_props_clause) and the engine's reading *)
(* of the literals it is sent                                              *)

\* str::replace(c, t): every character c of s replaced by the text t
RECURSIVE replace(_, _, _)
replace(s, c, t) ==
    IF s = <<>> THEN <<>>
    ELSE (IF Head(s) = c THEN t ELSE <<Head(s)>>) \o replace(Tail(s), c, t)

RECURSIVE JoinComma(_)
JoinComma(texts) ==
    IF texts = <<>> THEN <<>>
    ELSE texts[1] \o (IF Len(texts) > 1 THEN <<",">> ELSE <<>>) \o JoinComma(Tail(texts))

\* the keys of a JSON object in the order of its map; the objects of the
\* model hold at most one member
ObjectKeys(m) == IF DOMAIN m = {} THEN <<>> ELSE <<CHOOSE k \in DOMAIN m : TRUE>>

\* Value::to_string: compact JSON
RECURSIVE to_string(_)
to_string(value) ==
    CASE value.kind = "array" ->
             <<"[">> \o JoinComma([i \in 1..Len(value.items) |-> to_string(value.items[i])])
                 \o <<"]">>
      [] value.kind = "object" ->
             <<"{">> \o JoinComma([i \in 1..Len(ObjectKeys(value.m)) |->
                                      QuoteJson(ObjectKeys(value.m)[i]) \o <<":">>
                                          \o to_string(value.m[ObjectKeys(value.m)[i]])])
                 \o <<"}">>
      [] OTHER -> EncodeScalar(value)

\* a String arm that doubles the single quotes
value_str_Doubled(value) ==
    CASE value.kind = "string" -> <<"'">> \o replace(value.s, "'", <<"'", "'">>) \o <<"'">>
      [] value.kind = "number" -> value.s
      [] value.kind = "bool"   -> value.s
      [] value.kind = "null"   -> sNullLit
      [] value.kind \in {"array", "object"} ->
             <<"'">> \o replace(to_string(value), "'", <<"\\", "'">>) \o <<"'">>

\* the value_str of one property
value_str(value) ==
    CASE value.kind = "string" -> <<"'">> \o replace(value.s, "'", <<"\\", "'">>) \o <<"'">>
      [] value.kind = "number" -> value.s
      [] value.kind = "bool"   -> value.s
      [] value.kind = "null"   -> sNullLit
      [] value.kind \in {"array", "object"} ->
             <<"'">> \o replace(to_string(value), "'", <<"\\", "'">>) \o <<"'">>

\* the prop_strings of generate_props_clause, by key
prop_strings(properties) == [k \in DOMAIN properties |-> value_str(properties[k])]

\* [..].join(sep)
RECURSIVE join(_, _)
join(texts, sep) ==
    IF texts = <<>> THEN <<>>
    ELSE texts[1] \o (IF Len(texts) > 1 THEN sep ELSE <<>>) \o join(Tail(texts), sep)

\* generate_props_clause; order is the order in which the map yields its keys
generate_props_clause(properties, order) ==
    <<"{">> \o join([i \in 1..Len(order) |->
                        order[i] \o <<":", " ">> \o prop_strings(properties)[order[i]]],
                    <<",", " ">>)
        \o <<"}">>

NoLiteral == [ok |-> FALSE, is_null |-> FALSE, v |-> JNull]

\* the character an escape sequence of a Cypher string literal stands for
Unescaped(c) ==
    CASE c = "n" -> "\n"
      [] c = "t" -> "\t"
      [] OTHER   -> c

\* the engine's reading of a single-quoted literal whose opening quote is
\* before index i: backslash escapes one character, the first bare quote
\* ends the literal, and text after it is a syntax error
RECURSIVE ReadQuoted(_, _, _)
ReadQuoted(s, i, acc) ==
    IF i > Len(s) THEN NoLiteral
    ELSE IF s[i] = "'"
         THEN IF i = Len(s) THEN [ok |-> TRUE, is_null |-> FALSE, v |-> JString(acc)]
              ELSE NoLiteral
    ELSE IF s[i] = "\\"
         THEN IF i + 1 <= Len(s) /\ s[i + 1] \in {"'", "\\", "\"", "n", "t"}
              THEN ReadQuoted(s, i + 2, Append(acc, Unescaped(s[i + 1])))
              ELSE NoLiteral
    ELSE ReadQuoted(s, i + 1, Append(acc, s[i]))

\* the engine's reading of the text of one property value
ReadLiteral(text) ==
    IF text = <<>> THEN NoLiteral
    ELSE IF text[1] = "'" THEN ReadQuoted(text, 2, <<>>)
    ELSE IF text = sNullLit THEN [ok |-> TRUE, is_null |-> TRUE, v |-> JNull]
    ELSE IF text = sTrue THEN [ok |-> TRUE, is_null |-> FALSE, v |-> JBool(TRUE)]
    ELSE IF text = sFalse THEN [ok |-> TRUE, is_null |-> FALSE, v |-> JBool(FALSE)]
    ELSE IF AllDigits(text, 1, Len(text))
         THEN [ok |-> TRUE, is_null |-> FALSE, v |-> JNumber(text)]
    ELSE NoLiteral

\* the statement is accepted when every literal of the clause is read
ClauseAccepted(strings) == \A k \in DOMAIN strings : ReadLiteral(strings[k]).ok

\* the property map the engine stores for an accepted clause: a property
\* set to null is not stored
StoredProperties(strings) ==
    [k \in {h \in DOMAIN strings : ~ReadLiteral(strings[h]).is_null} |->
        ReadLiteral(strings[k]).v]

-----------------------------------------------------------------------------
(* Node creation: create_node (endpoints.rs) and Node::create, for the     *)
(* requests of an authenticated Admin of the organisation owning the graph *)

Graphs == {"g1", "g2"}

EntitySlots == {"n1", "n2"}

MaxTypes == 1

\* ids that create_id draws for the types, in the order of creation
TypeIdPool == << <<"v", "1">>, <<"v", "2">>, <<"v", "3">> >>

\* an id that no type carries
sUnknownId == <<"v", "9">>

sAb == <<"A", "b">>
sX == <<"x">>
sOBrien == <<"O", "'", "B", "r", "i", "e", "n">>
s7 == <<"7">>
sUser == <<"u", "1">>
sCreatedBy == <<"c", "r", "e", "a", "t", "e", "d", "_", "b", "y">>
sCreatedAt == <<"c", "r", "e", "a", "t", "e", "d", "_", "a", "t">>

\* chrono::Utc::now().to_rfc3339() at the time of the request
sNow ==
    <<"2", "0", "2", "4", "-", "0", "2", "-", "2", "9", "T",
      "1", "0", ":", "0", "0", ":", "0", "0", "+", "0", "0", ":", "0", "0">>

TypeNames == {sAb}

AttrChoices ==
    {<<>>,
     <<[name |-> sAge, data_type |-> "number", required |-> TRUE]>>,
     <<[name |-> sAge, data_type |-> "number", required |-> FALSE]>>,
     <<[name |-> sCreatedBy, data_type |-> "number", required |-> TRUE]>>}

\* the row NodeType::save inserts
TypeRow(id, graph_id, name) ==
    [id |-> id, graph_id |-> graph_id, name |-> name,
     normalized_name |-> normalize(name)]

\* the rows AttributeDefinition::save inserts for the attributes of a request;
\* idx is the position in the request, the defined order
AttrRows(type_id, attributes) ==
    {[type_id |-> type_id, idx |-> i, name |-> attributes[i].name,
      data_type |-> attributes[i].data_type, required |-> attributes[i].required] :
        i \in 1..Len(attributes)}

\* a label of the engine catalog
LabelOf(graph_id, name, kind) == [graph_id |-> graph_id, name |-> name, kind |-> kind]

\* sequences of committed create_node_type requests: <<graph, name, attributes>>
SchemaPlans ==
    {plan \in UNION {[1..k -> Graphs \X TypeNames \X AttrChoices] : k \in 0..MaxTypes} :
        \A i, j \in 1..Len(plan) :
            i # j => <<plan[i][1], normalize(plan[i][2])>>
                         # <<plan[j][1], normalize(plan[j][2])>>}

RequestTypeIds == {TypeIdPool[1], sUnknownId}

EmptyMap == [k \in {} |-> JNull]

RequestProps ==
    {EmptyMap,
     (sName :> JNumber(s7)),
     (sName :> JString(sX)),
     (sName :> JString(sX)) @@ (sAge :> JNumber(s12)),
     (sName :> JString(sX)) @@ (sAge :> JString(s12)),
     (sName :> JString(sX)) @@ (sCreatedBy :> JNumber(s7)),
     (sName :> JString(sX)) @@ (sAge :> JObject((sK :> JNumber(s7)))),
     (sName :> JString(sX)) @@ (sAge :> JArray(<<JArray(<<JNumber(s7)>>)>>))}

IdleRequest ==
    [pc |-> "idle", graph_id |-> "", node_type |-> <<>>, properties |-> EmptyMap,
     name |-> <<>>, errors |-> <<>>, strings |-> EmptyMap, outcome |-> "none",
     writes |-> 0]

Init ==
    /\ \E plan \in SchemaPlans :
          /\ node_types =
                 {TypeRow(TypeIdPool[i], plan[i][1], plan[i][2]) : i \in 1..Len(plan)}
          /\ node_type_attributes =
                 UNION {AttrRows(TypeIdPool[i], plan[i][3]) : i \in 1..Len(plan)}
          /\ labels =
                 {LabelOf(plan[i][1], normalize(plan[i][2]), "v") : i \in 1..Len(plan)}
    /\ edge_type = {}
    /\ edge_type_attribute = {}
    /\ vertices = {}
    /\ ereq = [s \in EntitySlots |-> IdleRequest]
    /\ lreq = <<>>
    /\ areq = <<>>
    /\ treq = <<>>
    /\ v_attrs = <<>>
    /\ v_props = <<>>
    /\ v_errors = NoResult
    /\ v_pc = "off"
    /\ d_raw = <<>>
    /\ d_vertex = NotEncoded
    /\ d_out = NoOutput
    /\ d_pc = "off"
    /\ ClauseOff

\* the request ends with an error response
Rejected(r, outcome) == [r EXCEPT !.pc = "done", !.outcome = outcome]

\* create_node up to the call of get_by_name: the type lookup and the two
\* checks of the name property
NodeReceived(s, g, id, props) ==
    /\ ereq[s].pc = "idle"
    /\ LET r == [ereq[s] EXCEPT !.graph_id = g, !.node_type = id,
                                !.properties = props]
       IN  ereq' = [ereq EXCEPT ![s] =
               IF from_id(g, id) = {} THEN Rejected(r, "UnknownType")
               ELSE IF sName \notin DOMAIN props THEN Rejected(r, "NameRequired")
               ELSE IF ~is_str(props[sName]) THEN Rejected(r, "Panicked")
               ELSE [r EXCEPT !.pc = "TypeResolved", !.name = props[sName].s]]
    /\ UNCHANGED <<pure_vars, areq, lreq, db_vars, treq>>

CreateNodeReceived(s) ==
    \E g \in Graphs, id \in RequestTypeIds, props \in RequestProps :
        NodeReceived(s, g, id, props)

\* properties of a stored vertex in the order the engine writes them
KeyOrder == <<sAge, sName, sCreatedAt, sCreatedBy>>

RECURSIVE PairsFrom(_, _)
PairsFrom(m, i) ==
    IF i > Len(KeyOrder) THEN <<>>
    ELSE (IF KeyOrder[i] \in DOMAIN m
          THEN << <<KeyOrder[i], m[KeyOrder[i]]>> >> ELSE <<>>)
             \o PairsFrom(m, i + 1)

\* the agtype text of a stored vertex
RowText(row) ==
    EncodeVertex([present |-> TRUE, label |-> row.label,
                  props |-> PairsFrom(row.properties, 1)])

\* the rows of MATCH (n:<id> {name: '<escaped_name>'}) RETURN n
MatchByName(graph_id, node_type_id, name) ==
    LET lit == ReadLiteral(<<"'">> \o replace(name, "'", <<"'", "'">>) \o <<"'">>)
    IN  IF ~lit.ok THEN {}
        ELSE {v \in vertices :
                 /\ v.graph_id = graph_id
                 /\ v.label = node_type_id
                 /\ sName \in DOMAIN v.properties
                 /\ v.properties[sName] = lit.v}

\* the fetched row becomes a Node: AgType::decode, Vertex::try_from, Node::try_from
RowIsNode(graph_id, row) ==
    LET ag == decode(RowText(row))
    IN  /\ ag.has_value
        /\ from_id(graph_id, ag.value.m[sLabel].s) # {}
        /\ node_properties(ag).ok

\* Node::get_by_name and the answer of create_node to its result
CheckName(s) ==
    /\ ereq[s].pc = "TypeResolved"
    /\ LET r == ereq[s]
           rows == MatchByName(r.graph_id, r.node_type, r.name)
       IN  \/ /\ from_id(r.graph_id, r.node_type) = {} \/ rows = {}
              /\ ereq' = [ereq EXCEPT ![s].pc = "NameChecked"]
           \/ /\ from_id(r.graph_id, r.node_type) # {}
              /\ \E row \in rows :
                    ereq' = [ereq EXCEPT ![s] =
                        IF RowIsNode(r.graph_id, row) THEN Rejected(r, "NameTaken")
                        ELSE [r EXCEPT !.pc = "NameChecked"]]
    /\ UNCHANGED <<pure_vars, areq, lreq, db_vars, treq>>

\* the properties after the two inserts of Node::create
Enriched(properties) ==
    (sCreatedBy :> JString(sUser)) @@ (sCreatedAt :> JString(sNow)) @@ properties

\* Node::create up to the statement: lookups, validation, enrichment, synthesis
Validate(s) ==
    /\ ereq[s].pc = "NameChecked"
    /\ LET r == ereq[s]
       IN  ereq' = [ereq EXCEPT ![s] =
               IF from_id(r.graph_id, r.node_type) = {}
               THEN Rejected(r, "InternalServerError")
               ELSE LET node_type == CHOOSE t \in from_id(r.graph_id, r.node_type) : TRUE
                        result == ValidateResult(from_node_type(node_type), r.properties)
                    IN  IF ~result.ok
                        THEN [Rejected(r, "ValidationFailed") EXCEPT
                                 !.errors = result.errors]
                        ELSE [r EXCEPT !.pc = "Validated",
                                       !.strings = prop_strings(Enriched(r.properties))]]
    /\ UNCHANGED <<pure_vars, areq, lreq, db_vars, treq>>

\* a CREATE statement refused by a unique constraint on (label, name)
NameConstraintViolated_Unique(graph_id, label, name) ==
    \E v \in vertices :
        /\ v.graph_id = graph_id /\ v.label = label
        /\ sName \in DOMAIN v.properties
        /\ v.properties[sName] = JString(name)

\* the CREATE statement of Node::create is a plain CREATE: the graph has no
\* constraint that refuses a second vertex of the label with the same name
NameConstraintViolated(graph_id, label, name) == FALSE

\* Node::create reaching the statement although validation has not returned
StatementReached_Unvalidated(r) == r.pc \in {"NameChecked", "Validated"}

\* Node::create reaches the statement only past the return on errors that
\* ends validation
StatementReached(r) == r.pc = "Validated"

\* the CREATE statement of Node::create; the engine registers the label of
\* the statement when it is new
Persist(s) ==
    /\ StatementReached(ereq[s])
    /\ LET r == ereq[s]
       IN  IF /\ ClauseAccepted(r.strings)
              /\ ~NameConstraintViolated(r.graph_id, r.node_type, r.name)
           THEN /\ vertices' = vertices \cup
                       {[id |-> s, graph_id |-> r.graph_id, label |-> r.node_type,
                         properties |-> StoredProperties(r.strings)]}
                /\ labels' = labels \cup {LabelOf(r.graph_id, r.node_type, "v")}
                /\ ereq' = [ereq EXCEPT ![s].pc = "done", ![s].outcome = "Persisted",
                                        ![s].writes = r.writes + 1]
           ELSE /\ UNCHANGED <<vertices, labels>>
                /\ ereq' = [ereq EXCEPT ![s].pc = "done",
                                        ![s].outcome = "InternalServerError",
                                        ![s].writes = r.writes + 1]
    /\ UNCHANGED <<pure_vars, areq, lreq, node_types, node_type_attributes, edge_type,
                   edge_type_attribute, treq>>

Next ==
    \E s \in EntitySlots :
        \/ CreateNodeReceived(s)
        \/ CheckName(s)
        \/ Validate(s)
        \/ Persist(s)

Spec == Init /\ [][Next]_vars

-----------------------------------------------------------------------------
(* Listing: get_nodes (endpoints.rs) and Node::list, for the requests of   *)
(* an authenticated Admin or Viewer of the organisation owning the graph   *)

\* a u32 is kept as two 16-bit halves
Base == 65536

U32(hi, lo) == [hi |-> hi, lo |-> lo]

U32Max == U32(Base - 1, Base - 1)

NonePage == [some |-> FALSE, v |-> U32(0, 0)]

SomePage(p) == [some |-> TRUE, v |-> p]

\* page.unwrap_or(1)
unwrap_or_1(page) == IF page.some THEN page.v ELSE U32(0, 1)

\* page - 1 on u32: the wrapped result and whether it left the range
sub_1(p) ==
    IF p.lo > 0 THEN [v |-> U32(p.hi, p.lo - 1), overflow |-> FALSE]
    ELSE IF p.hi > 0 THEN [v |-> U32(p.hi - 1, Base - 1), overflow |-> FALSE]
    ELSE [v |-> U32Max, overflow |-> TRUE]

page_size == 5

\* x * page_size on u32: the wrapped result and whether it left the range
mul_page_size(x) ==
    LET lo == x.lo * page_size
        hi == x.hi * page_size + (lo \div Base)
    IN  [v |-> U32(hi % Base, lo % Base), overflow |-> hi >= Base]

\* let offset = (page - 1) * page_size
offset_of(p) ==
    LET d == sub_1(p)
        m == mul_page_size(d.v)
    IN  [v |-> m.v, overflow |-> d.overflow \/ m.overflow]

\* the order of characters in ORDER BY
Collation ==
    <<" ", "'", "7", ":", "A", "B", "a", "b", "c", "d", "e", "g", "x", "y">>

CharRank(c) == CHOOSE i \in 1..Len(Collation) : Collation[i] = c

TextLess(a, b) ==
    \E i \in 1..(Len(a) + 1) :
        /\ i <= Len(b)
        /\ \A j \in 1..(i - 1) : a[j] = b[j]
        /\ i > Len(a) \/ CharRank(a[i]) < CharRank(b[i])

\* the order in which the engine yields vertices of equal name
VertexIds == <<"n1", "n2", "w1", "w2", "w3", "w4", "w5", "w6", "w7">>

IdRank(id) == CHOOSE i \in 1..Len(VertexIds) : VertexIds[i] = id

\* v.name as the key of ORDER BY v.name
NameKey(v) ==
    IF sName \in DOMAIN v.properties /\ v.properties[sName].kind = "string"
    THEN v.properties[sName].s ELSE <<>>

VertexBefore(v, w) ==
    \/ TextLess(NameKey(v), NameKey(w))
    \/ NameKey(v) = NameKey(w) /\ IdRank(v.id) < IdRank(w.id)

\* MATCH (v) or MATCH (v:<node_type>) ... ORDER BY v.name
Matched(graph_id, node_type) ==
    LET S == {v \in vertices :
                 /\ v.graph_id = graph_id
                 /\ node_type.some => v.label = node_type.v}
    IN  [i \in 1..Cardinality(S) |->
            CHOOSE v \in S : Cardinality({w \in S : VertexBefore(w, v)}) = i - 1]

\* SKIP offset LIMIT page_size
PageOf(rows, offset) ==
    IF offset.hi > 0 \/ offset.lo >= Len(rows) THEN <<>>
    ELSE SubSeq(rows, offset.lo + 1,
                IF offset.lo + page_size < Len(rows)
                THEN offset.lo + page_size ELSE Len(rows))

\* Node::try_from: from_id on the label of the vertex, then the properties
Node_try_from(graph_id, ag) ==
    LET types == from_id(graph_id, ag.value.m[sLabel].s)
        props == node_properties(ag)
    IN  IF types = {} \/ ~props.ok
        THEN [ok |-> FALSE, node_type |-> <<>>, properties |-> <<>>]
        ELSE [ok |-> TRUE, node_type |-> (CHOOSE n \in types : TRUE).id,
              properties |-> props.properties]

\* a join that leaves out the futures that failed
try_join_all_Skipping(results) ==
    [ok |-> TRUE, nodes |-> SelectSeq(results, LAMBDA r : r.ok)]

\* try_join_all: the first error, or every result in order
try_join_all(results) ==
    IF \E i \in 1..Len(results) : ~results[i].ok
    THEN [ok |-> FALSE, nodes |-> <<>>]
    ELSE [ok |-> TRUE, nodes |-> results]

NoneType == [some |-> FALSE, v |-> <<>>]

SomeType(id) == [some |-> TRUE, v |-> id]

IdleList ==
    [pc |-> "idle", graph_id |-> "", node_type |-> NoneType, page |-> NonePage,
     offset |-> U32(0, 0), overflowed |-> FALSE, rows |-> <<>>, ags |-> <<>>,
     nodes |-> <<>>, outcome |-> "none"]

\* get_nodes up to the statement: the page arithmetic of Node::list; a build
\* with overflow checks panics where the arithmetic leaves u32, a build
\* without them wraps
ListReceived(graph_id, node_type, page, overflow_checks) ==
    /\ lreq.pc = "idle"
    /\ LET offset == offset_of(unwrap_or_1(page))
           r == [lreq EXCEPT !.graph_id = graph_id, !.node_type = node_type,
                             !.page = page, !.overflowed = offset.overflow]
       IN  lreq' = IF offset.overflow /\ overflow_checks
                   THEN [r EXCEPT !.pc = "done", !.outcome = "Panicked"]
                   ELSE [r EXCEPT !.pc = "OffsetComputed", !.offset = offset.v]
    /\ UNCHANGED <<pure_vars, areq, db_vars, treq, ereq>>

\* fetch_all: the page of rows, each decoded by AgType::decode
ListFetch ==
    /\ lreq.pc = "OffsetComputed"
    /\ LET rows == PageOf(Matched(lreq.graph_id, lreq.node_type), lreq.offset)
           ags == [i \in 1..Len(rows) |-> decode(RowText(rows[i]))]
       IN  lreq' = IF \E i \in 1..Len(ags) : ~ags[i].has_value
                   THEN [lreq EXCEPT !.pc = "done", !.rows = rows,
                                     !.outcome = "InternalServerError"]
                   ELSE [lreq EXCEPT !.pc = "Fetched", !.rows = rows, !.ags = ags]
    /\ UNCHANGED <<pure_vars, areq, db_vars, treq, ereq>>

\* the resolve step rewriting the type rows it reads
ListResolve_Rewriting ==
    /\ lreq.pc = "Fetched"
    /\ LET joined == try_join_all([i \in 1..Len(lreq.ags) |->
                                      Node_try_from(lreq.graph_id, lreq.ags[i])])
       IN  lreq' = IF joined.ok
                   THEN [lreq EXCEPT !.pc = "done", !.nodes = joined.nodes,
                                     !.outcome = "Ok"]
                   ELSE [lreq EXCEPT !.pc = "done",
                                     !.outcome = "InternalServerError"]
    /\ node_types' = {[n EXCEPT !.name = n.normalized_name] : n \in node_types}
    /\ UNCHANGED <<pure_vars, areq, labels, node_type_attributes, edge_type,
                   edge_type_attribute, vertices, treq, ereq>>

\* Vertex::try_from and Node::try_from on every row, joined by try_join_all
ListResolve ==
    /\ lreq.pc = "Fetched"
    /\ LET joined == try_join_all([i \in 1..Len(lreq.ags) |->
                                      Node_try_from(lreq.graph_id, lreq.ags[i])])
       IN  lreq' = IF joined.ok
                   THEN [lreq EXCEPT !.pc = "done", !.nodes = joined.nodes,
                                     !.outcome = "Ok"]
                   ELSE [lreq EXCEPT !.pc = "done",
                                     !.outcome = "InternalServerError"]
    /\ UNCHANGED <<pure_vars, areq, db_vars, treq, ereq>>

\* the pages a request may carry: absent, 0, the first pages, the last page
\* whose offset fits u32, the first whose offset does not, and u32::MAX
ListPages ==
    {NonePage, SomePage(U32(0, 0)), SomePage(U32(0, 1)), SomePage(U32(0, 2)),
     SomePage(U32(0, 3)), SomePage(U32(13107, 13108)),
     SomePage(U32(13107, 13109)), SomePage(U32Max)}

ListTypes == {NoneType, SomeType(TypeIdPool[1]), SomeType(sUnknownId)}

sXY == <<"x", ":", ":", "y">>

\* the vertices a graph may hold: nodes of the type v1 written by create_node,
\* one of them with "::" in its name, and a vertex whose label is no type id
StoredPool ==
    {[id |-> "w1", graph_id |-> "g1", label |-> TypeIdPool[1],
      properties |-> (sName :> JString(<<"a">>))],
     [id |-> "w2", graph_id |-> "g1", label |-> TypeIdPool[1],
      properties |-> (sName :> JString(<<"b">>))],
     [id |-> "w3", graph_id |-> "g1", label |-> TypeIdPool[1],
      properties |-> (sName :> JString(<<"b">>))],
     [id |-> "w4", graph_id |-> "g1", label |-> TypeIdPool[1],
      properties |-> (sName :> JString(<<"c">>))],
     [id |-> "w5", graph_id |-> "g1", label |-> TypeIdPool[1],
      properties |-> (sName :> JString(<<"d">>))],
     [id |-> "w6", graph_id |-> "g1", label |-> sUnknownId,
      properties |-> (sName :> JString(<<"e">>))],
     [id |-> "w7", graph_id |-> "g1", label |-> TypeIdPool[1],
      properties |-> (sName :> JString(sXY))]}

InitList ==
    /\ node_types = {TypeRow(TypeIdPool[1], "g1", sAb)}
    /\ node_type_attributes = {}
    /\ edge_type = {}
    /\ edge_type_attribute = {}
    /\ \E S \in SUBSET StoredPool :
          /\ vertices = S
          /\ labels = {LabelOf("g1", normalize(sAb), "v")}
                          \cup {LabelOf(v.graph_id, v.label, "v") : v \in S}
    /\ lreq = IdleList
    /\ areq = <<>>
    /\ ereq = <<>>
    /\ treq = <<>>
    /\ v_attrs = <<>>
    /\ v_props = <<>>
    /\ v_errors = NoResult
    /\ v_pc = "off"
    /\ d_raw = <<>>
    /\ d_vertex = NotEncoded
    /\ d_out = NoOutput
    /\ d_pc = "off"
    /\ ClauseOff

NextList ==
    \/ \E graph_id \in Graphs, node_type \in ListTypes, page \in ListPages,
          overflow_checks \in BOOLEAN :
           ListReceived(graph_id, node_type, page, overflow_checks)
    \/ ListFetch
    \/ ListResolve

SpecList == InitList /\ [][NextList]_vars

-----------------------------------------------------------------------------
(* Node creation together with listing: SpecEntity                         *)

\* the graph g1 has the type "Ab" with the optional number attribute age
InitEntity ==
    /\ node_types = {TypeRow(TypeIdPool[1], "g1", sAb)}
    /\ node_type_attributes =
           AttrRows(TypeIdPool[1],
                    <<[name |-> sAge, data_type |-> "number", required |-> FALSE]>>)
    /\ labels = {LabelOf("g1", normalize(sAb), "v")}
    /\ edge_type = {}
    /\ edge_type_attribute = {}
    /\ vertices = {}
    /\ ereq = [s \in EntitySlots |-> IdleRequest]
    /\ lreq = IdleList
    /\ areq = <<>>
    /\ treq = <<>>
    /\ v_attrs = <<>>
    /\ v_props = <<>>
    /\ v_errors = NoResult
    /\ v_pc = "off"
    /\ d_raw = <<>>
    /\ d_vertex = NotEncoded
    /\ d_out = NoOutput
    /\ d_pc = "off"
    /\ ClauseOff

\* the listings that run next to the creation requests: the first page of
\* all vertices of a graph
NextEntity ==
    \/ Next
    \/ \E graph_id \in Graphs, overflow_checks \in BOOLEAN :
           ListReceived(graph_id, NoneType, NonePage, overflow_checks)
    \/ ListFetch
    \/ ListResolve

SpecEntity == InitEntity /\ [][NextEntity]_vars

-----------------------------------------------------------------------------
(* Node creation by requests that do not overlap: SpecSequential           *)

SeqSlots == {"n1", "n2", "n3"}

\* the names of the requests: plain, with a single quote, with "::"
SeqNames == {sX, sOBrien, sXY}

\* the graph g1 has the type "Ab" without attributes
InitSequential ==
    /\ node_types = {TypeRow(TypeIdPool[1], "g1", sAb)}
    /\ node_type_attributes = {}
    /\ labels = {LabelOf("g1", normalize(sAb), "v")}
    /\ edge_type = {}
    /\ edge_type_attribute = {}
    /\ vertices = {}
    /\ ereq = [s \in SeqSlots |-> IdleRequest]
    /\ lreq = <<>>
    /\ areq = <<>>
    /\ treq = <<>>
    /\ v_attrs = <<>>
    /\ v_props = <<>>
    /\ v_errors = NoResult
    /\ v_pc = "off"
    /\ d_raw = <<>>
    /\ d_vertex = NotEncoded
    /\ d_out = NoOutput
    /\ d_pc = "off"
    /\ ClauseOff

\* a request arrives only when no other request is in progress
SequentialReceived(s) ==
    /\ \A o \in SeqSlots : ereq[o].pc \in {"idle", "done"}
    /\ \E name \in SeqNames :
           NodeReceived(s, "g1", TypeIdPool[1], (sName :> JString(name)))

NextSequential ==
    \E s \in SeqSlots :
        \/ SequentialReceived(s)
        \/ CheckName(s)
        \/ Validate(s)
        \/ Persist(s)

SpecSequential == InitSequential /\ [][NextSequential]_vars

-----------------------------------------------------------------------------
(* Authentication and authorization of the writing handlers: SpecAuth      *)
(* auth_middleware, then the checks that open create_node_type,            *)
(* create_edge_type and create_node; the rest of a handler is one write    *)

AuthSlots == {"a1", "a2"}

\* the Authorization header of a request
NoHeader == [present |-> FALSE, scheme |-> "", token |-> ""]

Bearer(token) == [present |-> TRUE, scheme |-> "Bearer", token |-> token]

\* tokens: empty, not a UUID, UUIDs of sessions, a UUID of no session
AuthHeaders ==
    {NoHeader, [present |-> TRUE, scheme |-> "Basic", token |-> "t1"],
     Bearer(""), Bearer("zz"), Bearer("t1"), Bearer("t2"), Bearer("t3"),
     Bearer("t4"), Bearer("t9")}

\* uuid::Uuid::parse_str on the tokens of the model
parse_str_ok(token) == token \in {"t1", "t2", "t3", "t4", "t9"}

\* rows of app_data.session: t4 is the session of a user that has no row
SessionRows ==
    {[id |-> "t1", user_id |-> "u1"], [id |-> "t2", user_id |-> "u2"],
     [id |-> "t3", user_id |-> "u3"], [id |-> "t4", user_id |-> "u4"]}

UserRows == {"u1", "u2", "u3"}

\* GraphInfo rows: the organisation owning each graph
GraphRows == {[graph_id |-> "g1", org_id |-> "o1"], [graph_id |-> "g2", org_id |-> "o2"]}

\* rows of app_data.org_member
OrgMemberRows ==
    {[org_id |-> "o1", user_id |-> "u1", role |-> "Admin"],
     [org_id |-> "o1", user_id |-> "u2", role |-> "Viewer"],
     [org_id |-> "o2", user_id |-> "u2", role |-> "Admin"]}

NoUser == [some |-> FALSE, id |-> ""]

SomeUser(id) == [some |-> TRUE, id |-> id]

\* the TypedHeader<Authorization<Bearer>> extractor of auth_middleware accepts
\* the request
bearer_extracted(header) == header.present /\ header.scheme = "Bearer"

\* auth_middleware past its extractors: the user put into Auth
auth_user(token) ==
    IF token = "" THEN NoUser
    ELSE IF ~parse_str_ok(token) THEN NoUser
    ELSE LET sessions == {s \in SessionRows : s.id = token}
         IN  IF sessions = {} THEN NoUser
             ELSE LET session == CHOOSE s \in sessions : TRUE
                  IN  IF session.user_id \in UserRows THEN SomeUser(session.user_id)
                      ELSE NoUser

\* Org::get_member
get_member(org_id, user_id) ==
    {m \in OrgMemberRows : m.org_id = org_id /\ m.user_id = user_id}

\* if org_member.role != Role::Admin { return Err(ApiError::Unauthorized) }
role_allows(role) == role = "Admin"

\* the checks that open a writing handler, as the outcome that ends the
\* request, or "none" when the handler goes on to its write
authorize(user, graph_id) ==
    IF ~user.some THEN "Unauthorized"
    ELSE LET graphs == {g \in GraphRows : g.graph_id = graph_id}
         IN  IF graphs = {} THEN "InternalServerError"
             ELSE LET members == get_member((CHOOSE g \in graphs : TRUE).org_id, user.id)
                  IN  IF members = {} THEN "Unauthorized"
                      ELSE IF ~role_allows((CHOOSE m \in members : TRUE).role)
                           THEN "Unauthorized"
                           ELSE "none"

IdleAuth ==
    [pc |-> "idle", handler |-> "none", graph_id |-> "", header |-> NoHeader,
     user |-> NoUser, outcome |-> "none", wrote |-> 0]

AuthHandlers == {"create_node_type", "create_edge_type", "create_node"}

\* a graph id that has no GraphInfo row
sNoGraph == "g0"

InitAuth ==
    /\ EmptyDb
    /\ areq = [a \in AuthSlots |-> IdleAuth]
    /\ lreq = <<>>
    /\ ereq = <<>>
    /\ treq = <<>>
    /\ v_attrs = <<>>
    /\ v_props = <<>>
    /\ v_errors = NoResult
    /\ v_pc = "off"
    /\ d_raw = <<>>
    /\ d_vertex = NotEncoded
    /\ d_out = NoOutput
    /\ d_pc = "off"
    /\ ClauseOff

\* auth_middleware: a request whose header the extractor rejects is answered
\* by the rejection and never reaches the handler
AuthMiddleware(a) ==
    /\ areq[a].pc = "idle"
    /\ \E handler \in AuthHandlers, graph_id \in Graphs \cup {sNoGraph},
          header \in AuthHeaders :
           LET r == [areq[a] EXCEPT !.handler = handler, !.graph_id = graph_id,
                                    !.header = header]
           IN  areq' = [areq EXCEPT ![a] =
                   IF ~bearer_extracted(header)
                   THEN [r EXCEPT !.pc = "done", !.outcome = "BadRequest"]
                   ELSE [r EXCEPT !.pc = "InHandler",
                                  !.user = auth_user(header.token)]]
    /\ UNCHANGED <<pure_vars, lreq, db_vars, treq, ereq>>

\* the handler up to the role check
AuthorizeAdmin(a) ==
    /\ areq[a].pc = "InHandler"
    /\ LET outcome == authorize(areq[a].user, areq[a].graph_id)
       IN  areq' = [areq EXCEPT ![a] =
               IF outcome # "none"
               THEN [areq[a] EXCEPT !.pc = "done", !.outcome = outcome]
               ELSE [areq[a] EXCEPT !.pc = "Authorized"]]
    /\ UNCHANGED <<pure_vars, lreq, db_vars, treq, ereq>>

\* the row a handler writes, with the user it writes as created_by
WrittenRow(a) ==
    [id |-> a, graph_id |-> areq[a].graph_id, created_by |-> areq[a].user.id]

\* the rest of the handler: the type or the node is written
AdminWrite(a) ==
    /\ areq[a].pc = "Authorized"
    /\ CASE areq[a].handler = "create_node_type" ->
                /\ node_types' = node_types \cup {WrittenRow(a)}
                /\ UNCHANGED <<edge_type, vertices>>
         [] areq[a].handler = "create_edge_type" ->
                /\ edge_type' = edge_type \cup {WrittenRow(a)}
                /\ UNCHANGED <<node_types, vertices>>
         [] areq[a].handler = "create_node" ->
                /\ vertices' = vertices \cup {WrittenRow(a)}
                /\ UNCHANGED <<node_types, edge_type>>
    /\ areq' = [areq EXCEPT ![a].pc = "done", ![a].outcome = "Created",
                            ![a].wrote = 1]
    /\ UNCHANGED <<pure_vars, lreq, labels, node_type_attributes,
                   edge_type_attribute, treq, ereq>>

NextAuth ==
    \E a \in AuthSlots :
        \/ AuthMiddleware(a)
        \/ AuthorizeAdmin(a)
        \/ AdminWrite(a)

SpecAuth == InitAuth /\ [][NextAuth]_vars

-----------------------------------------------------------------------------
(* Claims about node creation                                              *)

\* the type a stored vertex refers to
TypesOfVertex(v) == {t \in node_types : t.graph_id = v.graph_id /\ t.id = v.label}

RequiredAttributesOf(t) ==
    {a \in node_type_attributes : a.type_id = t.id /\ a.required}

\* C1: every persisted entity carries every required attribute of its type
\* with a value of the matching semantic type, and a request that ended with
\* ValidationFailed issued no write to the graph engine.
C1_RequiredAttributesPersisted ==
    /\ \A v \in vertices : \A t \in TypesOfVertex(v) : \A a \in RequiredAttributesOf(t) :
           /\ a.name \in DOMAIN v.properties
           /\ Matches(a.data_type, v.properties[a.name])
    /\ \A s \in EntitySlots :
           ereq[s].outcome = "ValidationFailed" =>
               /\ ereq[s].writes = 0
               /\ \A v \in vertices : v.id # s

TypeExists(graph_id, node_type_id) ==
    \E t \in node_types : t.graph_id = graph_id /\ t.id = node_type_id

\* C4: a creation request whose type does not exist in its graph ends with
\* UnknownType and has executed no write statement: its count of writes is
\* zero and no vertex stems from it.
C4_UnknownTypeBeforeAnyWrite ==
    \A s \in EntitySlots :
        (ereq[s].pc # "idle" /\ ~TypeExists(ereq[s].graph_id, ereq[s].node_type)) =>
            /\ ereq[s].pc = "done"
            /\ ereq[s].outcome = "UnknownType"
            /\ ereq[s].writes = 0
            /\ \A v \in vertices : v.id # s

\* a request names a type that exists only in the other graph and is answered
\* UnknownType, while the other request persisted an entity
C4_Witness ==
    \E s, o \in EntitySlots :
        /\ ereq[s].outcome = "UnknownType"
        /\ ereq[s].writes = 0
        /\ \E t \in node_types :
              t.id = ereq[s].node_type /\ t.graph_id # ereq[s].graph_id
        /\ ereq[o].outcome = "Persisted"

-----------------------------------------------------------------------------
(* Type creation: create_node_type and create_edge_type, step by step, for *)
(* concurrent requests of an Admin; each request has its own transaction   *)

TypeSlots == {"t1", "t2"}

\* the id that create_id draws for the request of a slot
SlotDigit == [s \in TypeSlots |-> IF s = "t1" THEN "1" ELSE "2"]

sab == <<"a", "b">>
sA7 == <<"A", "7">>
sNick == <<"n", "i", "c", "k">>

sPowerPlant == <<"P", "o", "w", "e", "r", " ", "P", "l", "a", "n", "t">>
spowerplant == <<"p", "o", "w", "e", "r", " ", "p", "l", "a", "n", "t">>

sEmpty == <<>>
sBlank == <<" ">>

sLeading == <<" ", "A">>
sTabbed == <<"A", "\t", "b">>

SchemaNames ==
    {sAb, sab, sA7, sPowerPlant, spowerplant, sEmpty, sBlank, sLeading, sTabbed}

SchemaAttrChoices ==
    {<<>>,
     <<[name |-> sAge, data_type |-> "number", required |-> TRUE],
       [name |-> sNick, data_type |-> "string", required |-> FALSE]>>}

\* a transaction that has written nothing
EmptyTx == [labels |-> {}, rows |-> {}, attrs |-> {}]

IdleType ==
    [pc |-> "idle", kind |-> "none", graph_id |-> "", name |-> <<>>,
     normalized_name |-> <<>>, attributes |-> <<>>, id |-> <<>>, tx |-> EmptyTx,
     next_attr |-> 1, wrote |-> 0, cause |-> "none", outcome |-> "none"]

InitSchema ==
    /\ EmptyDb
    /\ treq = [s \in TypeSlots |-> IdleType]
    /\ ereq = <<>>
    /\ lreq = <<>>
    /\ areq = <<>>
    /\ v_attrs = <<>>
    /\ v_props = <<>>
    /\ v_errors = NoResult
    /\ v_pc = "off"
    /\ d_raw = <<>>
    /\ d_vertex = NotEncoded
    /\ d_out = NoOutput
    /\ d_pc = "off"
    /\ ClauseOff

\* EdgeType::new: let normalized_name = name.to_uppercase().replace(' ', "_")
edge_normalized_name(name) == replace_spaces(to_uppercase(name))

\* EdgeType::from_name comparing normalized_name with the name as given
edge_from_name_Raw(graph_id, name) ==
    {t \in edge_type : t.graph_id = graph_id /\ t.normalized_name = name}

\* EdgeType::from_name: the rows WHERE graph_id = $1 AND normalized_name = normalize($2)
edge_from_name(graph_id, name) ==
    {t \in edge_type : t.graph_id = graph_id /\ t.normalized_name = normalize(name)}

\* ApiError::into_response: the outcome the caller sees for an error variant;
\* message is the text of the database error behind it
into_response(variant, message) ==
    IF variant = "Database" /\ message = "already exists" THEN "Conflict"
    ELSE IF variant = "Database" THEN "InternalServerError"
    ELSE variant

\* the request ends; its transaction, when open, is dropped
Ended(r, outcome) == [r EXCEPT !.pc = "done", !.outcome = outcome, !.tx = EmptyTx]

\* create_node_type up to the transaction: NodeType::new(..).unwrap() and the
\* from_name pre-check on the normalized name
NodeTypeReceived(s, g, name, attributes) ==
    IF ~name_is_valid(name)
    THEN Ended([treq[s] EXCEPT !.kind = "node", !.graph_id = g, !.name = name,
                               !.attributes = attributes], "Panicked")
    ELSE LET r == [treq[s] EXCEPT !.kind = "node", !.graph_id = g, !.name = name,
                                  !.normalized_name = normalize(name),
                                  !.attributes = attributes,
                                  !.id = <<"v", SlotDigit[s]>>]
         IN  IF from_name(g, r.normalized_name) # {} THEN Ended(r, "AlreadyExists")
             ELSE [r EXCEPT !.pc = "PreChecked"]

\* create_edge_type up to the transaction: EdgeType::from_request and the
\* from_name pre-check on the name
EdgeTypeReceived(s, g, name, attributes) ==
    IF ~name_is_valid(name)
    THEN Ended([treq[s] EXCEPT !.kind = "edge", !.graph_id = g, !.name = name,
                               !.attributes = attributes], "BadRequest")
    ELSE LET r == [treq[s] EXCEPT !.kind = "edge", !.graph_id = g, !.name = name,
                                  !.normalized_name = edge_normalized_name(name),
                                  !.attributes = attributes,
                                  !.id = <<"e", SlotDigit[s]>>]
         IN  IF edge_from_name(g, r.name) # {} THEN Ended(r, "AlreadyExists")
             ELSE [r EXCEPT !.pc = "PreChecked"]

TypeReceived(s) ==
    /\ treq[s].pc = "idle"
    /\ \E g \in Graphs, name \in SchemaNames, attributes \in SchemaAttrChoices :
          \/ treq' = [treq EXCEPT ![s] = NodeTypeReceived(s, g, name, attributes)]
          \/ treq' = [treq EXCEPT ![s] = EdgeTypeReceived(s, g, name, attributes)]
    /\ UNCHANGED <<pure_vars, areq, lreq, db_vars, ereq>>

\* the engine's check of create_vlabel / create_elabel that looks at labels
\* of the requested kind only
LabelTaken_PerKind(graph_id, name, kind) ==
    \E l \in labels : l.graph_id = graph_id /\ l.name = name /\ l.kind = kind

\* the engine's check of create_vlabel / create_elabel: a label of the graph
\* with this name exists, whatever its kind
LabelTaken(graph_id, name, kind) ==
    \E l \in labels : l.graph_id = graph_id /\ l.name = name

\* another open transaction has registered a label with this name in the
\* graph: the engine's insert waits for that transaction to end
LabelPending(s, graph_id, name) ==
    \E o \in TypeSlots \ {s} : \E l \in treq[o].tx.labels :
        l.graph_id = graph_id /\ l.name = name

\* pool.begin() and the first statement of save: create_vlabel / create_elabel
SaveLabel(s) ==
    /\ treq[s].pc = "PreChecked"
    /\ ~LabelPending(s, treq[s].graph_id, treq[s].normalized_name)
    /\ LET r == treq[s]
           kind == IF r.kind = "node" THEN "v" ELSE "e"
       IN  treq' = [treq EXCEPT ![s] =
               IF LabelTaken(r.graph_id, r.normalized_name, kind)
               THEN Ended([r EXCEPT !.cause = "already exists"],
                          into_response("InternalServerError", "already exists"))
               ELSE [r EXCEPT !.pc = "LabelCreated", !.wrote = r.wrote + 1,
                              !.tx.labels = {LabelOf(r.graph_id, r.normalized_name, kind)}]]
    /\ UNCHANGED <<pure_vars, areq, lreq, db_vars, ereq>>

\* the second statement of save: the INSERT of the type row
SaveRow(s) ==
    /\ treq[s].pc = "LabelCreated"
    /\ treq' = [treq EXCEPT ![s].pc = "RowInserted", ![s].wrote = @ + 1,
                            ![s].tx.rows =
                                {[TypeRow(treq[s].id, treq[s].graph_id, treq[s].name)
                                     EXCEPT !.normalized_name = treq[s].normalized_name]}]
    /\ UNCHANGED <<pure_vars, areq, lreq, db_vars, ereq>>

\* one turn of the loop over payload.attributes: from_request and save
SaveAttr(s) ==
    /\ treq[s].pc = "RowInserted"
    /\ treq[s].next_attr <= Len(treq[s].attributes)
    /\ LET r == treq[s]
           row == CHOOSE a \in AttrRows(r.id, r.attributes) : a.idx = r.next_attr
       IN  treq' = [treq EXCEPT ![s].next_attr = r.next_attr + 1,
                                ![s].wrote = r.wrote + 1,
                                ![s].tx.attrs = r.tx.attrs \cup {row}]
    /\ UNCHANGED <<pure_vars, areq, lreq, db_vars, ereq>>

\* the labels visible after a rollback when the engine's label registration
\* is not undone with the transaction
LabelsAfterRollback_Kept(committed, pending) == committed \cup pending

\* the labels visible after the transaction is dropped without commit
LabelsAfterRollback(committed, pending) == committed

\* transaction.commit(): every write of the transaction becomes visible
Commit(s) ==
    /\ treq[s].pc = "RowInserted"
    /\ treq[s].next_attr > Len(treq[s].attributes)
    /\ labels' = labels \cup treq[s].tx.labels
    /\ IF treq[s].kind = "node"
       THEN /\ node_types' = node_types \cup treq[s].tx.rows
            /\ node_type_attributes' = node_type_attributes \cup treq[s].tx.attrs
            /\ UNCHANGED <<edge_type, edge_type_attribute>>
       ELSE /\ edge_type' = edge_type \cup treq[s].tx.rows
            /\ edge_type_attribute' = edge_type_attribute \cup treq[s].tx.attrs
            /\ UNCHANGED <<node_types, node_type_attributes>>
    /\ treq' = [treq EXCEPT ![s] = Ended(treq[s], "Created")]
    /\ UNCHANGED <<pure_vars, areq, lreq, vertices, ereq>>

\* a statement of the transaction, or its begin or commit, fails: the
\* handler returns through `?` and the transaction is dropped; the error of
\* begin and of a statement is mapped to ApiError::InternalServerError, the
\* error of commit becomes ApiError::Database
StatementFails(s) ==
    /\ treq[s].pc \in {"PreChecked", "LabelCreated", "RowInserted"}
    /\ labels' = LabelsAfterRollback(labels, treq[s].tx.labels)
    /\ LET r == treq[s]
           at_commit == r.pc = "RowInserted" /\ r.next_attr > Len(r.attributes)
       IN  treq' = [treq EXCEPT ![s] =
               Ended([r EXCEPT !.cause = "other"],
                     into_response(IF at_commit THEN "Database"
                                   ELSE "InternalServerError", "other"))]
    /\ UNCHANGED <<pure_vars, areq, lreq, node_types, node_type_attributes, edge_type,
                   edge_type_attribute, vertices, ereq>>

\* the request is cancelled at an await point: the future and with it the
\* open transaction are dropped
Cancel(s) ==
    /\ treq[s].pc \in {"PreChecked", "LabelCreated", "RowInserted"}
    /\ labels' = LabelsAfterRollback(labels, treq[s].tx.labels)
    /\ treq' = [treq EXCEPT ![s] = Ended(treq[s], "Cancelled")]
    /\ UNCHANGED <<pure_vars, areq, lreq, node_types, node_type_attributes, edge_type,
                   edge_type_attribute, vertices, ereq>>

NextSchema ==
    \E s \in TypeSlots :
        \/ TypeReceived(s)
        \/ SaveLabel(s)
        \/ SaveRow(s)
        \/ SaveAttr(s)
        \/ Commit(s)
        \/ StatementFails(s)
        \/ Cancel(s)

SpecSchema == InitSchema /\ [][NextSchema]_vars

\* the property map holds an object, or an array with an array or object in it
HasNested(properties) ==
    \E k \in DOMAIN properties :
        \/ properties[k].kind = "object"
        \/ /\ properties[k].kind = "array"
           /\ \E i \in 1..Len(properties[k].items) :
                 properties[k].items[i].kind \in {"array", "object"}

\* C14: a request whose property map holds a nested object or a nested array
\* is rejected before query synthesis and before any write: no clause is
\* built for it, it executes no write and no entity stems from it.
C14_NestedValuesRejected ==
    \A s \in EntitySlots :
        HasNested(ereq[s].properties) =>
            /\ ereq[s].strings = EmptyMap
            /\ ereq[s].writes = 0
            /\ ereq[s].outcome # "Persisted"
            /\ \A v \in vertices : v.id # s

\* C15: an entity is stored under the label that equals the normalized_name
\* of the type its request refers to, the label that saving the type
\* registered.
C15_LabelIsNormalizedName ==
    \A s \in EntitySlots : \A v \in vertices :
        v.id = s =>
            \A t \in node_types :
                (t.graph_id = ereq[s].graph_id /\ t.id = ereq[s].node_type) =>
                    v.label = t.normalized_name

\* C19: the stored properties of a persisted entity hold created_by = the
\* acting user's id and created_at = the server's time, whatever the client
\* sent under those keys, and every other property of the request unchanged.
C19_EnrichedAndOthersUnchanged ==
    \A s \in EntitySlots : \A v \in vertices :
        v.id = s =>
            /\ sCreatedBy \in DOMAIN v.properties
            /\ v.properties[sCreatedBy] = JString(sUser)
            /\ sCreatedAt \in DOMAIN v.properties
            /\ v.properties[sCreatedAt] = JString(sNow)
            /\ \A k \in DOMAIN ereq[s].properties \ {sCreatedBy, sCreatedAt} :
                   /\ k \in DOMAIN v.properties
                   /\ v.properties[k] = ereq[s].properties[k]

\* the stored entities of a label of a graph with the given name
NamedEntities(graph_id, label, name) ==
    {v \in vertices : /\ v.graph_id = graph_id /\ v.label = label
                      /\ sName \in DOMAIN v.properties
                      /\ v.properties[sName] = JString(name)}

\* C20: the name pre-check is a separate read before the write and nothing
\* checks the name at the write: the CREATE step of a request that passed
\* the pre-check and validation persists its entity when the statement is
\* well formed, whatever entities exist by then.
C20_WriteNotGuardedByName ==
    [][\A s \in EntitySlots :
          (/\ ereq[s].pc = "Validated" /\ ereq'[s].pc = "done"
           /\ ClauseAccepted(ereq[s].strings)) =>
              /\ ereq'[s].outcome = "Persisted"
              /\ \E v \in vertices' : v.id = s]_vars

\* two requests with the same graph, type and name both passed the pre-check
\* and both were persisted: two entities of the type have the same name
C20_Witness ==
    \E s, o \in EntitySlots :
        /\ s # o
        /\ ereq[s].outcome = "Persisted" /\ ereq[o].outcome = "Persisted"
        /\ ereq[s].graph_id = ereq[o].graph_id
        /\ ereq[s].node_type = ereq[o].node_type
        /\ ereq[s].name = ereq[o].name
        /\ Cardinality(NamedEntities(ereq[s].graph_id, ereq[s].node_type,
                                     ereq[s].name)) = 2

\* the answers that reject a creation request
RejectedOutcomes ==
    {"UnknownType", "NameRequired", "NameTaken", "ValidationFailed",
     "InternalServerError"}

\* C22: a creation request is at one of the stages Received, TypeResolved,
\* Validated (query synthesized), or has ended; once ended it carries exactly
\* one terminal outcome, Persisted or a rejection, whatever its input, and it
\* has issued at most one creation write.
C22_OneTerminalOutcome ==
    \A s \in EntitySlots :
        /\ ereq[s].pc \in {"idle", "TypeResolved", "NameChecked", "Validated", "done"}
        /\ ereq[s].writes <= 1
        /\ ereq[s].pc = "done" <=>
               ereq[s].outcome \in RejectedOutcomes \cup {"Persisted"}

\* the stages of one invocation in the order of the code
StageOrder == <<"idle", "TypeResolved", "NameChecked", "Validated", "done">>

StageRank(pc) == CHOOSE i \in 1..Len(StageOrder) : StageOrder[i] = pc

\* C23: within one invocation the stages are passed in order, validation
\* starts only after the type lookup has completed, and the creation write is
\* issued only by a request whose type lookup and validation both succeeded,
\* whatever the other requests do in between.
C23_StagesInOrder ==
    [][\A s \in EntitySlots :
          /\ StageRank(ereq[s].pc) <= StageRank(ereq'[s].pc)
          /\ (ereq'[s].pc = "Validated" /\ ereq[s].pc # "Validated") =>
                 /\ ereq[s].pc = "NameChecked"
                 /\ TypeExists(ereq[s].graph_id, ereq[s].node_type)
          /\ ereq'[s].writes # ereq[s].writes =>
                 /\ ereq[s].pc = "Validated"
                 /\ \A n \in from_id(ereq[s].graph_id, ereq[s].node_type) :
                        ValidateResult(from_node_type(n), ereq[s].properties).ok
                 /\ from_id(ereq[s].graph_id, ereq[s].node_type) # {}]_vars

\* one request has issued its write while the other one, received before
\* that write, is between its type lookup and its validation
C23_Witness ==
    \E s, o \in EntitySlots :
        /\ ereq[s].pc = "done" /\ ereq[s].writes = 1
        /\ ereq[o].pc = "NameChecked"
        /\ ereq[o].graph_id = ereq[s].graph_id

\* C26: no step of a creation request or of a listing changes the schema
\* store: the TypeDefinition and AttributeDefinition records, of both kinds,
\* are after the step what they were before it.
C26_SchemaStoreUntouched ==
    [][/\ node_types' = node_types
       /\ node_type_attributes' = node_type_attributes
       /\ edge_type' = edge_type
       /\ edge_type_attribute' = edge_type_attribute]_vars

\* an entity was persisted and a listing that ran next to the creation
\* requests returned it, resolved against the type of the graph
C26_Witness ==
    /\ lreq.pc = "done" /\ lreq.outcome = "Ok" /\ Len(lreq.nodes) >= 1
    /\ \E s \in EntitySlots : ereq[s].outcome = "Persisted"
    /\ \E n \in node_types : \E a \in node_type_attributes : a.type_id = n.id

\* C27: when requests do not overlap, no two persisted entities of one type
\* of a graph have the same name property, whatever the name.
C27_SequentialNamesUnique ==
    \A v, w \in vertices :
        (/\ v.graph_id = w.graph_id /\ v.label = w.label
         /\ sName \in DOMAIN v.properties /\ sName \in DOMAIN w.properties
         /\ v.properties[sName] = w.properties[sName]) => v = w

\* the request carries no session token of an existing user
Anonymous(r) ==
    \/ ~r.header.present
    \/ r.header.scheme # "Bearer"
    \/ ~\E s \in SessionRows : s.id = r.header.token /\ s.user_id \in UserRows

\* the user of the request is an Admin of the organisation owning its graph
IsAdminOf(user_id, graph_id) ==
    \E g \in GraphRows : \E m \in OrgMemberRows :
        /\ g.graph_id = graph_id /\ m.org_id = g.org_id
        /\ m.user_id = user_id /\ m.role = "Admin"

\* the request is for an existing graph, by a user who is no Admin of its
\* organisation: no member, or a Viewer
NotAdmin(r) ==
    /\ ~Anonymous(r)
    /\ \E g \in GraphRows : g.graph_id = r.graph_id
    /\ \A s \in SessionRows :
           s.id = r.header.token => ~IsAdminOf(s.user_id, r.graph_id)

\* the rows that exist were written by Admins of the owning organisation
WrittenByAdmins ==
    \A row \in node_types \cup edge_type \cup vertices :
        IsAdminOf(row.created_by, row.graph_id)

\* C30: every type and entity that exists was written by a request of an
\* Admin of the organisation owning the graph, and a finished request that
\* was anonymous (token missing, malformed or unknown), or of a non-member
\* or a Viewer, was answered Unauthorized and wrote nothing.
C30_WritesByAdminsOnly ==
    /\ WrittenByAdmins
    /\ \A a \in AuthSlots :
           (areq[a].pc = "done" /\ (Anonymous(areq[a]) \/ NotAdmin(areq[a]))) =>
               /\ areq[a].outcome = "Unauthorized"
               /\ areq[a].wrote = 0
               /\ \A row \in node_types \cup edge_type \cup vertices : row.id # a

-----------------------------------------------------------------------------
(* Claims about listing                                                    *)

\* the row cannot be decoded, or the type of its label cannot be resolved
RowUnusable(graph_id, row) ==
    \/ ~decode(RowText(row)).has_value
    \/ from_id(graph_id, row.label) = {}

\* C21: a finished listing either holds one entity for every row of the
\* fetched page, in order, or is an error without any entity; it is an error
\* whenever a row of the page cannot be decoded or resolved.
C21_ListIsAllOrNothing ==
    lreq.pc = "done" =>
        /\ lreq.outcome = "Ok" =>
               /\ Len(lreq.nodes) = Len(lreq.rows)
               /\ \A i \in 1..Len(lreq.rows) :
                      /\ lreq.nodes[i].ok
                      /\ lreq.nodes[i].node_type = lreq.rows[i].label
        /\ lreq.outcome # "Ok" => lreq.nodes = <<>>
        /\ (\E i \in 1..Len(lreq.rows) : RowUnusable(lreq.graph_id, lreq.rows[i]))
               => lreq.outcome = "InternalServerError"

\* a page of five rows was fetched and decoded, four of its rows resolve to
\* entities and one carries a label that is no type: the listing is an error
C21_Witness ==
    /\ lreq.pc = "done" /\ lreq.outcome = "InternalServerError"
    /\ Len(lreq.rows) = 5
    /\ \A i \in 1..5 : decode(RowText(lreq.rows[i])).has_value
    /\ Cardinality({i \in 1..5 : RowUnusable(lreq.graph_id, lreq.rows[i])}) = 1

\* C29: for every page value the offset (page - 1) * 5, with page = 1 when
\* absent, is computed inside u32, the request does not end in the
\* arithmetic, and at most 5 rows are fetched.
C29_OffsetWithinU32 ==
    lreq.pc # "idle" =>
        /\ ~lreq.overflowed
        /\ lreq.outcome # "Panicked"
        /\ lreq.pc # "done" \/ lreq.outcome # "Panicked" =>
               lreq.offset = offset_of(unwrap_or_1(lreq.page)).v
        /\ Len(lreq.rows) <= page_size

-----------------------------------------------------------------------------
(* Claims about type creation                                              *)

TypeTable(kind) == IF kind = "v" THEN node_types ELSE edge_type

AttrTable(kind) == IF kind = "v" THEN node_type_attributes ELSE edge_type_attribute

LabelKind(r) == IF r.kind = "node" THEN "v" ELSE "e"

\* the rows visible to every session that the request of r wrote
VisibleRows(r) == {t \in TypeTable(LabelKind(r)) : t.id = r.id}

VisibleAttrs(r) == {a \in AttrTable(LabelKind(r)) : a.type_id = r.id}

\* C2: saving a type is all-or-nothing.  In every state the label, the type
\* row and the attribute rows of a request are all visible (the request
\* committed) or none of them is: a request in flight, failed or cancelled
\* shows no row, and no label is visible without the type row it belongs to.
C2_TypeSavedAllOrNothing ==
    /\ \A s \in TypeSlots :
           IF treq[s].outcome = "Created"
           THEN /\ VisibleRows(treq[s]) # {}
                /\ LabelOf(treq[s].graph_id, treq[s].normalized_name,
                           LabelKind(treq[s])) \in labels
                /\ VisibleAttrs(treq[s]) = AttrRows(treq[s].id, treq[s].attributes)
           ELSE /\ VisibleRows(treq[s]) = {}
                /\ VisibleAttrs(treq[s]) = {}
    /\ \A l \in labels :
           \E t \in TypeTable(l.kind) :
               t.graph_id = l.graph_id /\ t.normalized_name = l.name
    /\ \A kind \in {"v", "e"} : \A t \in TypeTable(kind) :
           LabelOf(t.graph_id, t.normalized_name, kind) \in labels
    /\ \A kind \in {"v", "e"} : \A a \in AttrTable(kind) :
           \E t \in TypeTable(kind) : t.id = a.type_id

\* one request was cancelled after its label, its row and its two attribute
\* rows were written, and another one committed a type with two attributes
C2_Witness ==
    \E s, o \in TypeSlots :
        /\ treq[s].outcome = "Cancelled"
        /\ treq[s].wrote = 4
        /\ treq[o].outcome = "Created"
        /\ Cardinality(VisibleAttrs(treq[o])) = 2

\* the stored TypeDefinitions of both kinds
AllTypes ==
    {[kind |-> "node", id |-> t.id, graph_id |-> t.graph_id,
      normalized_name |-> t.normalized_name] : t \in node_types}
        \cup
    {[kind |-> "edge", id |-> t.id, graph_id |-> t.graph_id,
      normalized_name |-> t.normalized_name] : t \in edge_type}

\* C3: no two stored TypeDefinitions, of either kind, of the same graph have
\* the same normalized_name.
C3_NormalizedNameUniquePerGraph ==
    \A a, b \in AllTypes :
        (a.graph_id = b.graph_id /\ a.normalized_name = b.normalized_name) => a = b

\* a node type and an edge type whose names normalize to the same label were
\* requested in the same graph; both passed their pre-check, one was created
\* and the other lost at the label registration
C3_Witness ==
    \E s, o \in TypeSlots :
        /\ treq[s].kind = "node" /\ treq[o].kind = "edge"
        /\ treq[s].graph_id = treq[o].graph_id
        /\ treq[s].name # treq[o].name
        /\ treq[s].normalized_name = treq[o].normalized_name
        /\ \/ treq[s].outcome = "Created" /\ treq[o].outcome = "InternalServerError"
           \/ treq[o].outcome = "Created" /\ treq[s].outcome = "InternalServerError"
        /\ treq[s].wrote + treq[o].wrote = 2

sPOWER_PLANT == <<"P", "O", "W", "E", "R", "_", "P", "L", "A", "N", "T">>

\* C16: normalization maps "Power Plant" to "POWER_PLANT", and a stored type
\* created under name N is the one find_by_name returns in its graph for
\* every name M whose normalized form equals that of N.
C16_LookupByNormalizedName ==
    /\ normalize(sPowerPlant) = sPOWER_PLANT
    /\ edge_normalized_name(sPowerPlant) = sPOWER_PLANT
    /\ \A t \in node_types : \A M \in SchemaNames :
           normalize(M) = normalize(t.name) => from_name(t.graph_id, M) = {t}
    /\ \A t \in edge_type : \A M \in SchemaNames :
           normalize(M) = normalize(t.name) => edge_from_name(t.graph_id, M) = {t}

\* an edge type was created as "Power Plant", the lookup by "power plant"
\* returns it, and a later request for an edge type "power plant" in the
\* same graph was answered from that lookup
C16_Witness ==
    \E t \in edge_type, s \in TypeSlots :
        /\ t.name = sPowerPlant /\ t \in edge_from_name(t.graph_id, spowerplant)
        /\ treq[s].kind = "edge" /\ treq[s].name = spowerplant
        /\ treq[s].graph_id = t.graph_id
        /\ treq[s].outcome = "AlreadyExists"

\* C17: a create_type request whose name is empty, whitespace only, or holds
\* a character other than letters and whitespace ends with the SchemaError
\* outcome (BadRequest) and has written nothing: no label, no type row and no
\* attribute row of it exists.
C17_InvalidNameIsSchemaError ==
    \A s \in TypeSlots :
        (treq[s].pc = "done" /\ ~name_is_valid(treq[s].name)) =>
            /\ treq[s].outcome = "BadRequest"
            /\ treq[s].wrote = 0
            /\ VisibleRows(treq[s]) = {} /\ VisibleAttrs(treq[s]) = {}
            /\ \A kind \in {"v", "e"} :
                   LabelOf(treq[s].graph_id, normalize(treq[s].name), kind) \notin labels

\* C18: a request ended by a persistence failure is answered with the
\* generic failure code, except when the cause is the engine's "already
\* exists" condition, which is answered with the distinct conflict outcome.
C18_AlreadyExistsIsConflict ==
    \A s \in TypeSlots :
        treq[s].pc = "done" =>
            /\ treq[s].cause = "already exists" => treq[s].outcome = "Conflict"
            /\ treq[s].cause = "other" => treq[s].outcome = "InternalServerError"

\* C24: the pre-check reads committed rows only and holds nothing until the
\* save: a request with a valid name passes it exactly when no committed type
\* of its kind has the normalized name in the graph, whatever other requests
\* for that name have passed it and not yet committed.
C24_PreCheckSeesCommittedOnly ==
    [][\A s \in TypeSlots :
          (treq[s].pc = "idle" /\ treq'[s].pc # "idle"
               /\ name_is_valid(treq'[s].name)) =>
              (treq'[s].pc = "PreChecked" <=>
                  ~\E n \in TypeTable(LabelKind(treq'[s])) :
                       /\ n.graph_id = treq'[s].graph_id
                       /\ n.normalized_name = normalize(treq'[s].name))]_vars

\* two requests of one kind for the same normalized name in the same graph
\* both passed the pre-check and both called save: one type was created, the
\* other request failed in save on the existing label
C24_Witness ==
    \E s, o \in TypeSlots :
        /\ s # o
        /\ treq[s].kind = treq[o].kind
        /\ treq[s].graph_id = treq[o].graph_id
        /\ treq[s].normalized_name = treq[o].normalized_name
        /\ treq[s].outcome = "Created"
        /\ treq[o].pc = "done" /\ treq[o].cause = "already exists"

\* a label the engine takes unescaped: a letter first, then letters and
\* underscores only
IsIdentifier(label) ==
    /\ label # <<>>
    /\ IsAlphabetic(label[1])
    /\ \A i \in 1..Len(label) : IsAlphabetic(label[i]) \/ label[i] = "_"

\* C28: the normalized_name computed for a request whose name create_type
\* accepts starts with a letter and holds only letters and underscores.
C28_NormalizedNameIsIdentifier ==
    \A s \in TypeSlots :
        (treq[s].pc # "idle" /\ name_is_valid(treq[s].name)) =>
            IsIdentifier(treq[s].normalized_name)

-----------------------------------------------------------------------------
(* Synthesis runs: SpecClause                                              *)

MaxClauseProps == 2

s3 == <<"3">>

ClauseValues ==
    {JString(<<"a">>), JString(sOBrien), JString(<<"a", "\\">>),
     JString(<<"\\", "'", "b">>), JNumber(s3), JBool(TRUE), JBool(FALSE), JNull,
     JArray(<<JNumber(s3), JString(<<"a">>)>>), JArray(<<>>)}

ClauseMaps ==
    UNION {[K -> ClauseValues] : K \in {S \in SUBSET WireKeys : Cardinality(S) <= MaxClauseProps}}

\* the orders in which a map with these keys can yield them
KeyOrders(keys) ==
    {o \in [1..Cardinality(keys) -> keys] : \A i, j \in DOMAIN o : i # j => o[i] # o[j]}

InitClause ==
    /\ c_props \in ClauseMaps
    /\ c_order \in KeyOrders(DOMAIN c_props)
    /\ c_out = NoClause
    /\ c_pc = "start"
    /\ v_attrs = <<>>
    /\ v_props = <<>>
    /\ v_errors = NoResult
    /\ v_pc = "off"
    /\ d_raw = <<>>
    /\ d_vertex = NotEncoded
    /\ d_out = NoOutput
    /\ d_pc = "off"
    /\ EmptyDb
    /\ treq = <<>>
    /\ ereq = <<>>
    /\ lreq = <<>>
    /\ areq = <<>>

\* generate_props_clause applied to the drawn map
Synthesize ==
    /\ c_pc = "start"
    /\ c_out' = [strings |-> prop_strings(c_props),
                 clause |-> generate_props_clause(c_props, c_order)]
    /\ c_pc' = "done"
    /\ UNCHANGED <<areq, lreq, c_props, c_order, v_attrs, v_props, v_errors, v_pc, d_raw, d_vertex,
                   d_out, d_pc, db_vars, treq, ereq>>

NextClause == Synthesize

SpecClause == InitClause /\ [][NextClause]_vars

-----------------------------------------------------------------------------
(* Claims about query synthesis                                            *)

\* the indices of b that hold a backslash put before a single quote
QuoteGuards(b) == {i \in 1..(Len(b) - 1) : b[i] = "\\" /\ b[i + 1] = "'"}

\* b without the backslashes that guard a single quote
WithoutGuards(b) ==
    LET kept == (1..Len(b)) \ QuoteGuards(b)
    IN  [n \in 1..Cardinality(kept) |->
            b[CHOOSE p \in kept : Cardinality({q \in kept : q <= p}) = n]]

\* text is s between single quotes with a backslash before each of its quotes
IsQuotedEscaped(text, s) ==
    /\ Len(text) = Len(s) + Cardinality({i \in 1..Len(s) : s[i] = "'"}) + 2
    /\ text[1] = "'"
    /\ text[Len(text)] = "'"
    /\ LET b == SubSeq(text, 2, Len(text) - 1)
       IN  /\ \A i \in 1..Len(b) : b[i] = "'" => (i > 1 /\ b[i - 1] = "\\")
           /\ WithoutGuards(b) = s

\* text is the rendering the specification gives for the scalar v
IsRendered(text, v) ==
    CASE v.kind = "string" -> IsQuotedEscaped(text, v.s)
      [] v.kind = "number" -> text = v.s /\ AllDigits(text, 1, Len(text))
      [] v.kind = "bool"   -> text = (IF v = JBool(TRUE) THEN sTrue ELSE sFalse)
      [] v.kind = "null"   -> text = sNullLit
      [] OTHER             -> TRUE

RECURSIVE Concat(_)
Concat(texts) == IF texts = <<>> THEN <<>> ELSE Head(texts) \o Concat(Tail(texts))

\* the entries `key: value` separated by ", " inside braces
Braced(order, strings) ==
    <<"{">> \o Concat([i \in 1..(2 * Len(order) - 1) |->
                          IF i % 2 = 1
                          THEN order[(i + 1) \div 2] \o <<":", " ">>
                                   \o strings[order[(i + 1) \div 2]]
                          ELSE <<",", " ">>])
        \o <<"}">>

sOBrienQuoted == <<"'", "O", "\\", "'", "B", "r", "i", "e", "n", "'">>

\* C11: the clause is the properties as `key: value` inside braces; a string
\* is single-quoted with a backslash before every single quote of it
\* (O'Brien -> 'O\'Brien'), a number or boolean is its unquoted literal text,
\* null is the literal null.
C11_ClauseRendersScalars ==
    c_pc = "done" =>
        /\ DOMAIN c_out.strings = DOMAIN c_props
        /\ \A k \in DOMAIN c_props :
               /\ IsRendered(c_out.strings[k], c_props[k])
               /\ c_props[k] = JString(sOBrien) => c_out.strings[k] = sOBrienQuoted
               /\ c_props[k] = JNumber(s3) => c_out.strings[k] = s3
        /\ c_out.clause = Braced(c_order, c_out.strings)

\* {name: 'O\'Brien', n: 3}
C11_Witness ==
    /\ c_pc = "done"
    /\ c_props = (sName :> JString(sOBrien)) @@ (sN :> JNumber(s3))
    /\ c_out.clause =
           <<"{", "n", "a", "m", "e", ":", " ">> \o sOBrienQuoted
               \o <<",", " ", "n", ":", " ", "3", "}">>

\* C12: every string value stays inside its own single-quoted literal: the
\* engine reads the rendered literal to its end and obtains the value.
C12_StringStaysInsideLiteral ==
    c_pc = "done" =>
        \A k \in DOMAIN c_props :
            c_props[k].kind = "string" =>
                ReadLiteral(c_out.strings[k]) =
                    [ok |-> TRUE, is_null |-> FALSE, v |-> c_props[k]]

\* C13: a flat array of scalars is rendered as a bracketed, comma-joined list
\* of its elements, each rendered by the rule for a top-level scalar.
C13_ArrayRenderedAsList ==
    c_pc = "done" =>
        \A k \in DOMAIN c_props :
            c_props[k].kind = "array" =>
                \E sep \in {<<",">>, <<",", " ">>} :
                    c_out.strings[k] =
                        <<"[">> \o join([i \in 1..Len(c_props[k].items) |->
                                            value_str(c_props[k].items[i])], sep)
                            \o <<"]">>

=============================================================================
